---- MODULE Spec2Model ----
(***************************************************************************)
(* A model of recog-go: the fingerprint match engine (fingerprints.go)     *)
(* and the fingerprint-set registry (nition.go).                           *)
(*                                                                         *)
(* Strings are sequences of one-character strings, so that the string      *)
(* functions of the code (strconv.Atoi, the placeholder pattern,           *)
(* strings.TrimSpace, strings.HasPrefix) are computed, not assumed.        *)
(***************************************************************************)
EXTENDS Integers, Sequences, FiniteSets, TLC

VARIABLES
    heap,       \* the FingerprintDB instances allocated by loads; a pointer is an index
    Databases,  \* FingerprintSet.Databases: alias key -> pointer
    loadErr,    \* the error returned by the last load ("" is nil)
    fp,         \* the fingerprint under test of the Match harness
    data,       \* the input string of the Match harness
    ret,        \* the last call made and what it returned
    threads,    \* the goroutines of the concurrent harness: each one's call and position
    results,    \* the FingerprintMatch objects allocated by the goroutines: address -> object
    drift       \* the process of the identifier drift checker (cmd/recog_verify)

vars == <<heap, Databases, loadErr, fp, data, ret, threads, results, drift>>

\* no drift checker is running
NoProcess == [status |-> "none"]

----------------------------------------------------------------------------
(* Strings *)

Digits == {"0", "1", "2", "3", "4", "5", "6", "7", "8", "9"}

Letters == {"a", "b", "c", "d", "e", "f", "g", "h", "i", "j", "k", "l", "m",
            "n", "o", "p", "q", "r", "s", "t", "u", "v", "w", "x", "y", "z", "A"}

\* [a-zA-Z0-9._\-], the characters of a placeholder key
IdentChars == Letters \cup Digits \cup {".", "_", "-"}

\* unicode.IsSpace on the characters the model uses
SpaceChars == {" ", "\t", "\n", "\r"}

HasPrefix(s, p) == Len(s) >= Len(p) /\ SubSeq(s, 1, Len(p)) = p

RECURSIVE TrimLeft(_)
TrimLeft(s) ==
    IF s # <<>> /\ Head(s) \in SpaceChars THEN TrimLeft(Tail(s)) ELSE s

RECURSIVE TrimRight(_)
TrimRight(s) ==
    IF s # <<>> /\ s[Len(s)] \in SpaceChars
    THEN TrimRight(SubSeq(s, 1, Len(s) - 1))
    ELSE s

TrimSpace(s) == TrimRight(TrimLeft(s))

DigitVal(c) ==
    CASE c = "0" -> 0 [] c = "1" -> 1 [] c = "2" -> 2 [] c = "3" -> 3
      [] c = "4" -> 4 [] c = "5" -> 5 [] c = "6" -> 6 [] c = "7" -> 7
      [] c = "8" -> 8 [] c = "9" -> 9

RECURSIVE DecimalVal(_)
DecimalVal(s) ==
    IF s = <<>> THEN 0
    ELSE 10 * DecimalVal(SubSeq(s, 1, Len(s) - 1)) + DigitVal(s[Len(s)])

\* strconv.Atoi: an optional sign, then one or more decimal digits.  The
\* positions of the model are short, so the int range is never left.
Atoi(s) ==
    LET signed == s # <<>> /\ Head(s) \in {"+", "-"}
        body   == IF signed THEN Tail(s) ELSE s
    IN  IF body = <<>> \/ \E i \in 1..Len(body) : body[i] \notin Digits
        THEN [ok |-> FALSE, val |-> 0]
        ELSE [ok |-> TRUE,
              val |-> IF signed /\ Head(s) = "-"
                      THEN 0 - DecimalVal(body)
                      ELSE DecimalVal(body)]

----------------------------------------------------------------------------
(* Maps and errors *)

EmptyMap == <<>>

HasKey(m, k) == k \in DOMAIN m

Put(m, k, v) == [x \in (DOMAIN m) \cup {k} |-> IF x = k THEN v ELSE m[x]]

Delete(m, ks) == [x \in (DOMAIN m) \ ks |-> m[x]]

\* fmt.Errorf: an error is its format and the argument that names the culprit
Errorf(format, arg) == [format |-> format, arg |-> arg]

----------------------------------------------------------------------------
(* The regular expressions of the corpus.                                  *)
(*                                                                         *)
(* A pattern is a sequence of tokens of the author's dialect:              *)
(*   lit c    the literal character c                                      *)
(*   any      .                                                            *)
(*   cap cls  ([cls]+), a capturing group                                  *)
(*   mflag    the inline modifier (?m)                                     *)
(*   nulu     the legacy escape \u0000, which regexp/syntax rejects        *)
(*   nulx     the escape \x00                                              *)
(*   bad      an unclosed group, a syntax error                            *)

Lit(c) == [t |-> "lit", c |-> c, cls |-> {}]
AnyChar == [t |-> "any", c |-> "", cls |-> {}]
Cap(cls) == [t |-> "cap", c |-> "", cls |-> cls]
MFlag == [t |-> "mflag", c |-> "", cls |-> {}]
NulU == [t |-> "nulu", c |-> "", cls |-> {}]
NulX == [t |-> "nulx", c |-> "", cls |-> {}]
Bad == [t |-> "bad", c |-> "", cls |-> {}]

\* the NUL character
NUL == "NUL"

\* simple case folding, on the letters the model uses in both cases
Fold(c) == IF c = "A" THEN "a" ELSE c

NilRegexp == [nil |-> TRUE, toks |-> <<>>, fold |-> FALSE, nl |-> FALSE]

\* syntax.Parse followed by regexp.Compile of the re-serialised tree: the
\* flags are kept in the compiled program
Compile(toks, fold, nl) ==
    IF \E i \in 1..Len(toks) : toks[i].t \in {"bad", "nulu"}
    THEN [err |-> TRUE, re |-> NilRegexp]
    ELSE [err |-> FALSE,
          re |-> [nil |-> FALSE, toks |-> toks, fold |-> fold, nl |-> nl]]

CharEq(re, c, d) == IF re.fold THEN Fold(c) = Fold(d) ELSE c = d

InClass(re, cls, d) == \E c \in cls : CharEq(re, c, d)

\* whether token tok matches the single character d
TokMatches(re, tok, d) ==
    CASE tok.t = "lit" -> CharEq(re, tok.c, d)
      [] tok.t = "any" -> re.nl \/ d # "\n"
      [] tok.t = "nulx" -> d = NUL
      [] OTHER -> FALSE

RECURSIVE RunLen(_, _, _, _)
RunLen(re, cls, s, pos) ==
    IF pos <= Len(s) /\ InClass(re, cls, s[pos])
    THEN 1 + RunLen(re, cls, s, pos + 1)
    ELSE 0

NoMatchHere == [ok |-> FALSE, end |-> 0, caps |-> <<>>]

\* Leftmost-first matching of tokens ti.. at position pos: a group is greedy
\* and gives back characters when the rest of the pattern needs them.
RECURSIVE MatchHere(_, _, _, _)
RECURSIVE TryCap(_, _, _, _, _)
MatchHere(re, ti, s, pos) ==
    IF ti > Len(re.toks) THEN [ok |-> TRUE, end |-> pos, caps |-> <<>>]
    ELSE LET tok == re.toks[ti]
         IN  CASE tok.t = "mflag" -> MatchHere(re, ti + 1, s, pos)
               [] tok.t = "cap" ->
                    TryCap(re, ti, s, pos, RunLen(re, tok.cls, s, pos))
               [] OTHER ->
                    IF pos <= Len(s) /\ TokMatches(re, tok, s[pos])
                    THEN MatchHere(re, ti + 1, s, pos + 1)
                    ELSE NoMatchHere

TryCap(re, ti, s, pos, n) ==
    IF n < 1 THEN NoMatchHere
    ELSE LET r == MatchHere(re, ti + 1, s, pos + n)
         IN  IF r.ok
             THEN [ok |-> TRUE, end |-> r.end,
                   caps |-> <<SubSeq(s, pos, pos + n - 1)>> \o r.caps]
             ELSE TryCap(re, ti, s, pos, n - 1)

RECURSIVE FindFrom(_, _, _)
FindFrom(re, s, start) ==
    IF start > Len(s) + 1 THEN <<>>
    ELSE LET r == MatchHere(re, 1, s, start)
         IN  IF r.ok
             THEN <<SubSeq(s, start, r.end - 1)>> \o r.caps
             ELSE FindFrom(re, s, start + 1)

\* (*Regexp).FindStringSubmatch: the whole match and every group, or nil
FindStringSubmatch(re, s) == FindFrom(re, s, 1)

\* (*Regexp).NumSubexp
NumSubexp(re) == Cardinality({i \in 1..Len(re.toks) : re.toks[i].t = "cap"})

----------------------------------------------------------------------------
(* Fingerprint.Normalize *)

FlagSeparators == {"|", ","}

\* flagsPattern.Split(fp.Flags, -1).  The flag string is a sequence of
\* lexemes, each a separator or a word; a run between separators is one token.
RECURSIVE Split(_)
Split(s) ==
    IF \A i \in 1..Len(s) : s[i] \notin FlagSeparators THEN <<s>>
    ELSE LET i == CHOOSE j \in 1..Len(s) :
                      /\ s[j] \in FlagSeparators
                      /\ \A k \in 1..(j - 1) : s[k] \notin FlagSeparators
         IN  <<SubSeq(s, 1, i - 1)>> \o Split(SubSeq(s, i + 1, Len(s)))

FoldCaseFlags == {<<"REG_ICASE">>, <<"IGNORECASE">>}
MatchNLFlags == {<<"REG_DOT_NEWLINE">>, <<"REG_MULTILINE">>, <<"REG_LINE_ANY_CRLF">>}

\* strings.Replace(fp.Pattern, "\\u0000", "\\x00", -1)
ReplaceNul(toks) ==
    [i \in 1..Len(toks) |-> IF toks[i].t = "nulu" THEN NulX ELSE toks[i]]

\* ex.AttributeMap: later attributes of the same name overwrite earlier ones
RECURSIVE Flatten(_, _)
Flatten(values, m) ==
    IF values = <<>> THEN m
    ELSE Flatten(Tail(values), Put(m, Head(values).Name, Head(values).Value))

NormalizeExamples(exs) ==
    [i \in 1..Len(exs) |->
        [exs[i] EXCEPT !.AttributeMap = Flatten(exs[i].Values, EmptyMap)]]

DefaultCertainty == <<"0", ".", "8", "5">>

\* A Normalize that reports success when the pattern does not compile
FpNormalizeSilent(f) ==
    LET pattern == ReplaceNul(f.Pattern)
        c       == Compile(pattern, FALSE, FALSE)
    IN  [err |-> "",
         fp  |-> [f EXCEPT !.Pattern = pattern,
                           !.PatternCompiled = c.re,
                           !.Examples = NormalizeExamples(f.Examples),
                           !.Certainty = IF f.Certainty = <<>>
                                         THEN DefaultCertainty
                                         ELSE f.Certainty]]

\* A Normalize that leaves an absent certainty absent
FpNormalizeNoDefault(f) ==
    LET pattern == ReplaceNul(f.Pattern)
        c       == Compile(pattern, FALSE, FALSE)
        f1      == [f EXCEPT !.Pattern = pattern]
    IN  IF c.err
        THEN [err |-> "bad regexp syntax", fp |-> f1]
        ELSE [err |-> "",
              fp |-> [f1 EXCEPT !.PatternCompiled = c.re,
                                !.Examples = NormalizeExamples(f.Examples)]]

\* A Normalize that rejects a flag token it does not know
FpNormalizeStrictFlags(f) ==
    LET flagStrings == Split(f.Flags)
        tokens  == {flagStrings[i] : i \in 1..Len(flagStrings)}
        pattern == ReplaceNul(f.Pattern)
        fold    == tokens \cap FoldCaseFlags # {}
        nl      == \/ tokens \cap MatchNLFlags # {}
                   \/ (pattern # <<>> /\ pattern[1].t = "mflag")
        c       == Compile(pattern, fold, nl)
        f1      == [f EXCEPT !.Pattern = pattern]
    IN  IF c.err \/ tokens \ (FoldCaseFlags \cup MatchNLFlags \cup {<<>>}) # {}
        THEN [err |-> "bad regexp syntax", fp |-> f1]
        ELSE [err |-> "",
              fp |-> [f1 EXCEPT !.PatternCompiled = c.re,
                                !.Examples = NormalizeExamples(f.Examples),
                                !.Certainty = IF f.Certainty = <<>>
                                              THEN DefaultCertainty
                                              ELSE f.Certainty]]

\* Fingerprint.Normalize: the fingerprint as the call leaves it, and the error
FpNormalize(f) ==
    LET flagStrings == Split(f.Flags)
        tokens  == {flagStrings[i] : i \in 1..Len(flagStrings)}
        pattern == ReplaceNul(f.Pattern)
        fold    == tokens \cap FoldCaseFlags # {}
        nl      == \/ tokens \cap MatchNLFlags # {}
                   \/ (pattern # <<>> /\ pattern[1].t = "mflag")
        c       == Compile(pattern, fold, nl)
        f1      == [f EXCEPT !.Pattern = pattern]
    IN  IF c.err
        THEN [err |-> "bad regexp syntax", fp |-> f1]
        ELSE [err |-> "",
              fp |-> [f1 EXCEPT !.PatternCompiled = c.re,
                                !.Examples = NormalizeExamples(f.Examples),
                                !.Certainty = IF f.Certainty = <<>>
                                              THEN DefaultCertainty
                                              ELSE f.Certainty]]

----------------------------------------------------------------------------
(* Fingerprint.Match *)

FpCertaintyKey == <<"f", "p", ".", "c", "e", "r", "t", "a", "i", "n", "t", "y">>
MatchedKey == <<"m", "a", "t", "c", "h", "e", "d">>
ServiceVersionKey ==
    <<"s", "e", "r", "v", "i", "c", "e", ".", "v", "e", "r", "s", "i", "o", "n">>
CpePrefix == <<"c", "p", "e", ":">>
TmpPrefix == <<"_", "t", "m", "p", ".">>
PosZero == <<"0">>

\* &FingerprintMatch{Matched: false}
NoMatch == [Matched |-> FALSE, Errors |-> <<>>, Values |-> EmptyMap]

\* The length of the placeholder key of a match of varSubPattern,
\* \{[a-zA-Z0-9._\-]+\}, that starts at position i of v; 0 when none does.
RECURSIVE IdentRun(_, _)
IdentRun(v, i) ==
    IF i <= Len(v) /\ v[i] \in IdentChars THEN 1 + IdentRun(v, i + 1) ELSE 0

PlaceholderAt(v, i) ==
    IF i <= Len(v) /\ v[i] = "{"
    THEN LET n == IdentRun(v, i + 1)
         IN  IF n >= 1 /\ i + n + 1 <= Len(v) /\ v[i + n + 1] = "}" THEN n ELSE 0
    ELSE 0

\* the placeholder of key rk
Braced(rk) == <<"{">> \o rk \o <<"}">>

\* varSubPattern.MatchString(v)
VarSubMatches(v) == \E i \in 1..Len(v) : PlaceholderAt(v, i) > 0

\* A replacement that records the error and drops the placeholder
ReplaceVarDropping(v, rk, values) ==
    IF ~HasKey(values, rk)
    THEN [out |-> <<>>,
          errs |-> <<Errorf("param %s could not be substituted", rk)>>]
    ELSE IF HasPrefix(v, CpePrefix) /\ rk = ServiceVersionKey /\ values[rk] = <<>>
         THEN [out |-> <<"-">>, errs |-> <<>>]
         ELSE [out |-> values[rk], errs |-> <<>>]

\* A replacement that writes the dash for every empty value
ReplaceVarDashingAll(v, rk, values) ==
    IF ~HasKey(values, rk)
    THEN [out |-> Braced(rk),
          errs |-> <<Errorf("param %s could not be substituted", rk)>>]
    ELSE IF values[rk] = <<>>
         THEN [out |-> <<"-">>, errs |-> <<>>]
         ELSE [out |-> values[rk], errs |-> <<>>]

\* The function passed to ReplaceAllStringFunc, for the placeholder of key rk
\* in the value v: what replaces it, and the error it records.
ReplaceVar(v, rk, values) ==
    IF ~HasKey(values, rk)
    THEN [out |-> Braced(rk),
          errs |-> <<Errorf("param %s could not be substituted", rk)>>]
    ELSE IF HasPrefix(v, CpePrefix) /\ rk = ServiceVersionKey /\ values[rk] = <<>>
         THEN [out |-> <<"-">>, errs |-> <<>>]
         ELSE [out |-> values[rk], errs |-> <<>>]

\* varSubPattern.ReplaceAllStringFunc(v, ...), from position i on: the matches
\* are found left to right and do not overlap.
RECURSIVE ReplaceAllFrom(_, _, _)
ReplaceAllFrom(v, i, values) ==
    IF i > Len(v) THEN [out |-> <<>>, errs |-> <<>>]
    ELSE LET n == PlaceholderAt(v, i)
         IN  IF n = 0
             THEN LET rest == ReplaceAllFrom(v, i + 1, values)
                  IN  [out |-> <<v[i]>> \o rest.out, errs |-> rest.errs]
             ELSE LET r    == ReplaceVar(v, SubSeq(v, i + 1, i + n), values)
                      rest == ReplaceAllFrom(v, i + n + 2, values)
                  IN  [out |-> r.out \o rest.out, errs |-> r.errs \o rest.errs]

\* A first pass that counts the groups from the whole match
ExtractParamOffByOne(p, matches, st) ==
    IF p.Position = PosZero
    THEN [st EXCEPT !.Values = Put(st.Values, p.Name, p.Value),
                    !.paramZeroKeys = st.paramZeroKeys \cup {p.Name}]
    ELSE LET a == Atoi(p.Position)
         IN  IF ~a.ok
             THEN [st EXCEPT !.Errors =
                      Append(st.Errors, Errorf("param index %s is invalid: %s", p.Position))]
             ELSE IF a.val <= 0
             THEN [st EXCEPT !.Errors =
                      Append(st.Errors, Errorf("param index %s is invalid", p.Position))]
             ELSE IF a.val >= Len(matches)
             THEN [st EXCEPT !.Errors =
                      Append(st.Errors, Errorf("param index %s was not captured (%d elements)", p.Position))]
             ELSE [st EXCEPT !.Values = Put(st.Values, p.Name, matches[a.val])]

\* A first pass that parses the position before it tests for the literal
\* rule, so that every spelling of zero is a literal rule
ExtractParamNumericZero(p, matches, st) ==
    LET a == Atoi(p.Position)
    IN  IF a.ok /\ a.val = 0
        THEN [st EXCEPT !.Values = Put(st.Values, p.Name, p.Value),
                        !.paramZeroKeys = st.paramZeroKeys \cup {p.Name}]
        ELSE IF ~a.ok
        THEN [st EXCEPT !.Errors =
                 Append(st.Errors, Errorf("param index %s is invalid: %s", p.Position))]
        ELSE IF a.val <= 0
        THEN [st EXCEPT !.Errors =
                 Append(st.Errors, Errorf("param index %s is invalid", p.Position))]
        ELSE IF a.val >= Len(matches)
        THEN [st EXCEPT !.Errors =
                 Append(st.Errors, Errorf("param index %s was not captured (%d elements)", p.Position))]
        ELSE [st EXCEPT !.Values = Put(st.Values, p.Name, matches[a.val + 1])]

\* A first pass that takes the last group for one the pattern does not have
ExtractParamStrictBound(p, matches, st) ==
    IF p.Position = PosZero
    THEN [st EXCEPT !.Values = Put(st.Values, p.Name, p.Value),
                    !.paramZeroKeys = st.paramZeroKeys \cup {p.Name}]
    ELSE LET a == Atoi(p.Position)
         IN  IF ~a.ok
             THEN [st EXCEPT !.Errors =
                      Append(st.Errors, Errorf("param index %s is invalid: %s", p.Position))]
             ELSE IF a.val <= 0
             THEN [st EXCEPT !.Errors =
                      Append(st.Errors, Errorf("param index %s is invalid", p.Position))]
             ELSE IF a.val >= Len(matches) - 1
             THEN [st EXCEPT !.Errors =
                      Append(st.Errors, Errorf("param index %s was not captured (%d elements)", p.Position))]
             ELSE [st EXCEPT !.Values = Put(st.Values, p.Name, matches[a.val + 1])]

\* One parameter rule of the first pass, on the state st of the extraction
ExtractParam(p, matches, st) ==
    IF p.Position = PosZero
    THEN [st EXCEPT !.Values = Put(st.Values, p.Name, p.Value),
                    !.paramZeroKeys = st.paramZeroKeys \cup {p.Name}]
    ELSE LET a == Atoi(p.Position)
         IN  IF ~a.ok
             THEN [st EXCEPT !.Errors =
                      Append(st.Errors, Errorf("param index %s is invalid: %s", p.Position))]
             ELSE IF a.val <= 0
             THEN [st EXCEPT !.Errors =
                      Append(st.Errors, Errorf("param index %s is invalid", p.Position))]
             ELSE IF a.val >= Len(matches)
             THEN [st EXCEPT !.Errors =
                      Append(st.Errors, Errorf("param index %s was not captured (%d elements)", p.Position))]
             ELSE [st EXCEPT !.Values = Put(st.Values, p.Name, matches[a.val + 1])]

RECURSIVE FirstPass(_, _, _)
FirstPass(params, matches, st) ==
    IF params = <<>> THEN st
    ELSE FirstPass(Tail(params), matches, ExtractParam(Head(params), matches, st))

\* Whether the second pass skips key k
SkipsKey(k, st) == k \notin st.paramZeroKeys \/ ~VarSubMatches(st.Values[k])

\* An iteration that stores the substituted value as it is
SubstituteKeyUntrimmed(k, st) ==
    IF SkipsKey(k, st) THEN st
    ELSE LET r == ReplaceAllFrom(st.Values[k], 1, st.Values)
         IN  [st EXCEPT !.Values = Put(st.Values, k, r.out),
                        !.Errors = st.Errors \o r.errs]

\* One iteration of the second pass, for key k
SubstituteKey(k, st) ==
    IF SkipsKey(k, st) THEN st
    ELSE LET r == ReplaceAllFrom(st.Values[k], 1, st.Values)
         IN  [st EXCEPT !.Values = Put(st.Values, k, TrimSpace(r.out)),
                        !.Errors = st.Errors \o r.errs]

\* The second pass ranges over the map res.Values: the Go runtime picks the
\* order of the keys, given here as the sequence order.
RECURSIVE SecondPass(_, _)
SecondPass(order, st) ==
    IF order = <<>> THEN st
    ELSE SecondPass(Tail(order), SubstituteKey(Head(order), st))

TmpKeys(values) == {k \in DOMAIN values : HasPrefix(k, TmpPrefix)}

\* The seeded mapping: the certainty and the description
SeedValues(f) ==
    LET c == IF f.Certainty # <<>>
             THEN Put(EmptyMap, FpCertaintyKey, f.Certainty)
             ELSE EmptyMap
    IN  IF ~f.Description.nil /\ f.Description.Text # <<>>
        THEN Put(c, MatchedKey, f.Description.Text)
        ELSE c

\* The state of the extraction after the first pass
Extracted(f, s) ==
    FirstPass(f.Params, FindStringSubmatch(f.PatternCompiled, s),
              [Values |-> SeedValues(f), Errors |-> <<>>, paramZeroKeys |-> {}])

\* The orders in which a range over the map m can visit its keys
RangeOrders(m) ==
    LET n == Cardinality(DOMAIN m)
    IN  {o \in [1..n -> DOMAIN m] : \A k \in DOMAIN m : \E i \in 1..n : o[i] = k}

\* A Match that returns the mapping with its temporary attributes
MatchKeepingTmp(f, s, order) ==
    IF Len(FindStringSubmatch(f.PatternCompiled, s)) = 0 THEN NoMatch
    ELSE LET st == SecondPass(order, Extracted(f, s))
         IN  [Matched |-> TRUE, Errors |-> st.Errors, Values |-> st.Values]

\* A Match that seeds the mapping before it tests the pattern
MatchSeededFirst(f, s, order) ==
    IF Len(FindStringSubmatch(f.PatternCompiled, s)) = 0
    THEN [Matched |-> FALSE, Errors |-> <<>>, Values |-> SeedValues(f)]
    ELSE LET st == SecondPass(order, Extracted(f, s))
         IN  [Matched |-> TRUE,
              Errors  |-> st.Errors,
              Values  |-> Delete(st.Values, TmpKeys(st.Values))]

\* Fingerprint.Match, when the second pass visits the keys in the given order
Match(f, s, order) ==
    IF Len(FindStringSubmatch(f.PatternCompiled, s)) = 0 THEN NoMatch
    ELSE LET st == SecondPass(order, Extracted(f, s))
         IN  [Matched |-> TRUE,
              Errors  |-> st.Errors,
              Values  |-> Delete(st.Values, TmpKeys(st.Values))]

\* The orders in which the second pass of Match can visit res.Values; the
\* pass is not reached when the pattern does not match
MatchOrders(f, s) ==
    IF Len(FindStringSubmatch(f.PatternCompiled, s)) = 0 THEN {<<>>}
    ELSE RangeOrders(Extracted(f, s).Values)

\* The results Match can return
MatchResults(f, s) == {Match(f, s, o) : o \in MatchOrders(f, s)}

----------------------------------------------------------------------------
(* Fingerprint.VerifyExamples *)

EncodingKey == <<"_", "e", "n", "c", "o", "d", "i", "n", "g">>
FilenameKey == <<"_", "f", "i", "l", "e", "n", "a", "m", "e">>
Base64Name == <<"b", "a", "s", "e", "6", "4">>

NilError == Errorf("", <<>>)

\* spacePat.ReplaceAllString(exampleData, ""): every run of \s is removed
StripSpace(s) == SelectSeq(s, LAMBDA c : c \notin SpaceChars)

\* the alphabet of base64.StdEncoding; the value of a character is its index
\* less one
B64Alphabet ==
    << "A", "B", "C", "D", "E", "F", "G", "H", "I", "J", "K", "L", "M",
       "N", "O", "P", "Q", "R", "S", "T", "U", "V", "W", "X", "Y", "Z",
       "a", "b", "c", "d", "e", "f", "g", "h", "i", "j", "k", "l", "m",
       "n", "o", "p", "q", "r", "s", "t", "u", "v", "w", "x", "y", "z",
       "0", "1", "2", "3", "4", "5", "6", "7", "8", "9", "+", "/" >>

B64Pad == "="

IsB64(c) == \E i \in 1..Len(B64Alphabet) : B64Alphabet[i] = c

B64Val(c) == (CHOOSE i \in 1..Len(B64Alphabet) : B64Alphabet[i] = c) - 1

\* the characters of the bytes 32..126
AsciiPrintable ==
    << " ", "!", "\"", "#", "$", "%", "&", "'", "(", ")", "*", "+", ",",
       "-", ".", "/", "0", "1", "2", "3", "4", "5", "6", "7", "8", "9",
       ":", ";", "<", "=", ">", "?", "@", "A", "B", "C", "D", "E", "F",
       "G", "H", "I", "J", "K", "L", "M", "N", "O", "P", "Q", "R", "S",
       "T", "U", "V", "W", "X", "Y", "Z", "[", "\\", "]", "^", "_", "\\x96",
       "a", "b", "c", "d", "e", "f", "g", "h", "i", "j", "k", "l", "m",
       "n", "o", "p", "q", "r", "s", "t", "u", "v", "w", "x", "y", "z",
       "{", "|", "}", "~" >>

\* string(data): the character of one byte; the bytes outside the table are
\* kept apart by their number
ByteChar(b) ==
    CASE b \in 32..126 -> AsciiPrintable[b - 31]
      [] b = 0 -> NUL
      [] b = 9 -> "\t"
      [] b = 10 -> "\n"
      [] b = 13 -> "\r"
      [] OTHER -> "\\x" \o ToString(b)

\* the bytes of one quantum of four characters, the last n of them padding
DecodeQuantum(q, n) ==
    LET v(i) == IF i > 4 - n THEN 0 ELSE B64Val(q[i])
        bits == v(1) * 262144 + v(2) * 4096 + v(3) * 64 + v(4)
        bytes == << ByteChar(bits \div 65536),
                    ByteChar((bits \div 256) % 256),
                    ByteChar(bits % 256) >>
    IN  SubSeq(bytes, 1, 3 - n)

\* the padding of the quantum q, or -1 when q is not a quantum: padding is
\* one or two characters, at the end of the last quantum only
QuantumPadding(q, last) ==
    IF \A i \in 1..4 : IsB64(q[i]) THEN 0
    ELSE IF last /\ IsB64(q[1]) /\ IsB64(q[2]) /\ IsB64(q[3]) /\ q[4] = B64Pad THEN 1
    ELSE IF last /\ IsB64(q[1]) /\ IsB64(q[2]) /\ q[3] = B64Pad /\ q[4] = B64Pad THEN 2
    ELSE -1

\* base64.StdEncoding.DecodeString
RECURSIVE DecodeString(_)
DecodeString(s) ==
    IF s = <<>> THEN [err |-> FALSE, data |-> <<>>]
    ELSE IF Len(s) < 4 THEN [err |-> TRUE, data |-> <<>>]
    ELSE LET q    == SubSeq(s, 1, 4)
             n    == QuantumPadding(q, Len(s) = 4)
             rest == DecodeString(SubSeq(s, 5, Len(s)))
         IN  IF n < 0 \/ rest.err THEN [err |-> TRUE, data |-> <<>>]
             ELSE [err |-> FALSE, data |-> DecodeQuantum(q, n) \o rest.data]

\* os.ReadFile(filepath.Join(fpath, datafile)) in the directory dir, a map
\* from the names of its files to their contents
ReadFile(dir, datafile) ==
    IF HasKey(dir, datafile)
    THEN [err |-> FALSE, str |-> dir[datafile]]
    ELSE [err |-> TRUE, str |-> <<>>]

\* A resolution that hands the text to Match as it is written
ExampleDataUndecoded(ex, dir) ==
    LET found == HasKey(ex.AttributeMap, FilenameKey)
        file  == ReadFile(dir, ex.AttributeMap[FilenameKey])
    IN  IF found /\ file.err
        THEN [err  |-> Errorf("external example file: %s: %s (%s)",
                              ex.AttributeMap[FilenameKey]),
              data |-> <<>>]
        ELSE [err |-> NilError, data |-> IF found THEN file.str ELSE ex.Text]

\* The text VerifyExamples hands to Match for the example ex: the inline text
\* or the contents of the file it names, base64-decoded when it says so
ExampleData(ex, dir) ==
    LET found == HasKey(ex.AttributeMap, FilenameKey)
        file  == ReadFile(dir, ex.AttributeMap[FilenameKey])
        text  == IF found THEN file.str ELSE ex.Text
        coded == /\ HasKey(ex.AttributeMap, EncodingKey)
                 /\ ex.AttributeMap[EncodingKey] = Base64Name
        dec   == DecodeString(StripSpace(text))
    IN  IF found /\ file.err
        THEN [err  |-> Errorf("external example file: %s: %s (%s)",
                              ex.AttributeMap[FilenameKey]),
              data |-> <<>>]
        ELSE IF coded /\ dec.err
        THEN [err |-> Errorf("base64: %s: %s (%s)", StripSpace(text)), data |-> <<>>]
        ELSE [err |-> NilError, data |-> IF coded THEN dec.data ELSE text]

\* A comparison that also fails on an attribute of the result the example
\* does not declare
RECURSIVE VerifyValuesBothWays(_, _, _)
VerifyValuesBothWays(order, want, m) ==
    IF order = <<>>
    THEN IF \E k \in DOMAIN m.Values : ~HasKey(want, k)
         THEN Errorf("'%s' %s has undeclared attribute %s", <<>>)
         ELSE NilError
    ELSE LET k == Head(order)
         IN  IF k = EncodingKey \/ k = FilenameKey
             THEN VerifyValuesBothWays(Tail(order), want, m)
             ELSE IF ~HasKey(m.Values, k)
             THEN Errorf("'%s' %s is missing attribute %s", k)
             ELSE IF m.Values[k] # want[k]
             THEN Errorf("'%s' (%s) has mismatched attribute value for %s: %s != %s", k)
             ELSE VerifyValuesBothWays(Tail(order), want, m)

\* The loop over ex.AttributeMap, visiting the keys in the given order: the
\* first attribute the result lacks or holds with another value
RECURSIVE VerifyValues(_, _, _)
VerifyValues(order, want, m) ==
    IF order = <<>> THEN NilError
    ELSE LET k == Head(order)
         IN  IF k = EncodingKey \/ k = FilenameKey
             THEN VerifyValues(Tail(order), want, m)
             ELSE IF ~HasKey(m.Values, k)
             THEN Errorf("'%s' %s is missing attribute %s", k)
             ELSE IF m.Values[k] # want[k]
             THEN Errorf("'%s' (%s) has mismatched attribute value for %s: %s != %s", k)
             ELSE VerifyValues(Tail(order), want, m)

\* A verification that does not look at the soft errors of the result
VerifyMatchIgnoringErrors(ex, exampleData, m, order) ==
    IF ~m.Matched
    THEN Errorf("failed to match '%s' (%s)", exampleData)
    ELSE VerifyValues(order, ex.AttributeMap, m)

\* What VerifyExamples makes of the result m of Match on the text of ex
VerifyMatch(ex, exampleData, m, order) ==
    IF ~m.Matched
    THEN Errorf("failed to match '%s' (%s)", exampleData)
    ELSE IF Len(m.Errors) > 0
    THEN Errorf("failed to match '%s' (%s) with errors: %v", exampleData)
    ELSE VerifyValues(order, ex.AttributeMap, m)

\* An iteration that keeps the text it read or decoded in the example
VerifyExampleStoringText(f, ex, dir) ==
    LET t == ExampleData(ex, dir)
    IN  IF t.err # NilError
        THEN {[err |-> t.err, ex |-> ex,
               did |-> [matched |-> FALSE, data |-> <<>>, m |-> NoMatch]]}
        ELSE {[err |-> VerifyMatch(ex, t.data, m, order),
               ex |-> [ex EXCEPT !.Text = t.data],
               did |-> [matched |-> TRUE, data |-> t.data, m |-> m]] :
                  m \in MatchResults(f, t.data),
                  order \in RangeOrders(ex.AttributeMap)}

\* One iteration of Fingerprint.VerifyExamples: its error, what it did
\* (whether it reached Match, on what text, with what result), and the
\* example as it leaves it
VerifyExample(f, ex, dir) ==
    LET t == ExampleData(ex, dir)
    IN  IF t.err # NilError
        THEN {[err |-> t.err, ex |-> ex,
               did |-> [matched |-> FALSE, data |-> <<>>, m |-> NoMatch]]}
        ELSE {[err |-> VerifyMatch(ex, t.data, m, order), ex |-> ex,
               did |-> [matched |-> TRUE, data |-> t.data, m |-> m]] :
                  m \in MatchResults(f, t.data),
                  order \in RangeOrders(ex.AttributeMap)}

\* Fingerprint.VerifyExamples from example j on: the error, the iterations
\* made, and the fingerprint as the call leaves it
RECURSIVE FpVerifyExamplesFrom(_, _, _)
FpVerifyExamplesFrom(f, j, dir) ==
    IF j > Len(f.Examples) THEN {[err |-> NilError, log |-> <<>>, fp |-> f]}
    ELSE UNION {
           LET f1 == [f EXCEPT !.Examples[j] = r.ex]
               e  == [ex |-> j, did |-> r.did]
           IN  IF r.err # NilError
               THEN {[err |-> r.err, log |-> <<e>>, fp |-> f1]}
               ELSE {[err |-> rest.err, log |-> <<e>> \o rest.log, fp |-> rest.fp] :
                        rest \in FpVerifyExamplesFrom(f1, j + 1, dir)} :
           r \in VerifyExample(f, f.Examples[j], dir)}

FpVerifyExamples(f, dir) == FpVerifyExamplesFrom(f, 1, dir)

\* FingerprintDB.VerifyExamples from fingerprint i on
RECURSIVE FDBVerifyExamplesFrom(_, _, _)
FDBVerifyExamplesFrom(fdb, i, dir) ==
    IF i > Len(fdb.Fingerprints) THEN {[err |-> NilError, log |-> <<>>, fdb |-> fdb]}
    ELSE UNION {
           LET fdb1 == [fdb EXCEPT !.Fingerprints[i] = r.fp]
               log  == [k \in 1..Len(r.log) |->
                           [fp |-> i, ex |-> r.log[k].ex, did |-> r.log[k].did]]
           IN  IF r.err # NilError
               THEN {[err |-> r.err, log |-> log, fdb |-> fdb1]}
               ELSE {[err |-> rest.err, log |-> log \o rest.log, fdb |-> rest.fdb] :
                        rest \in FDBVerifyExamplesFrom(fdb1, i + 1, dir)} :
           r \in FpVerifyExamples(fdb.Fingerprints[i], dir)}

FDBVerifyExamples(fdb, dir) == FDBVerifyExamplesFrom(fdb, 1, dir)

----------------------------------------------------------------------------
(* FingerprintDB *)

\* the nil *log.Logger, and a logger the caller has configured
NilLogger == "nil"
Sink == "sink"

\* A DebugLogf that does not test for the nil logger
DebugLogfUnguarded(fdb, format, args) ==
    <<[name |-> fdb.Name, format |-> format, args |-> args]>>

\* FingerprintDB.DebugLogf: the lines the call writes to the logger
DebugLogf(fdb, format, args) ==
    IF fdb.Logger = NilLogger THEN <<>>
    ELSE <<[name |-> fdb.Name, format |-> format, args |-> args]>>

\* desc of the loops of MatchFirst and MatchAll
DescText(f) == IF f.Description.nil THEN <<>> ELSE f.Description.Text

\* FingerprintDB.Normalize: the fingerprints as the call leaves them, and the
\* first error
RECURSIVE NormalizeFrom(_, _)
NormalizeFrom(fps, i) ==
    IF i > Len(fps) THEN [err |-> "", fps |-> fps]
    ELSE LET r == FpNormalize(fps[i])
             done == [fps EXCEPT ![i] = r.fp]
         IN  IF r.err # "" THEN [err |-> r.err, fps |-> done]
             ELSE NormalizeFrom(done, i + 1)

FDBNormalize(fdb) ==
    LET r == NormalizeFrom(fdb.Fingerprints, 1)
    IN  [err |-> r.err, fdb |-> [fdb EXCEPT !.Fingerprints = r.fps]]

\* FingerprintDB.MatchFirst: the results the scan from fingerprint i on can return
RECURSIVE MatchFirstFrom(_, _, _)
MatchFirstFrom(fps, i, s) ==
    IF i > Len(fps) THEN {NoMatch}
    ELSE LET ms == MatchResults(fps[i], s)
         IN  {m \in ms : m.Matched}
                 \cup (IF \E m \in ms : ~m.Matched
                       THEN MatchFirstFrom(fps, i + 1, s)
                       ELSE {})

\* A MatchFirst that falls through to later fingerprints when the match
\* carries soft errors
RECURSIVE MatchFirstCleanFrom(_, _, _)
MatchFirstCleanFrom(fps, i, s) ==
    IF i > Len(fps) THEN {NoMatch}
    ELSE LET ms == MatchResults(fps[i], s)
         IN  {m \in ms : m.Matched /\ m.Errors = <<>>}
                 \cup (IF \E m \in ms : ~m.Matched \/ m.Errors # <<>>
                       THEN MatchFirstCleanFrom(fps, i + 1, s)
                       ELSE {})

FDBMatchFirstClean(fdb, s) == MatchFirstCleanFrom(fdb.Fingerprints, 1, s)

FDBMatchFirst(fdb, s) == MatchFirstFrom(fdb.Fingerprints, 1, s)

\* FingerprintDB.MatchFirst with what it writes to the logger: the results
\* and traces the scan from fingerprint i on can give
RECURSIVE TracedMatchFirstFrom(_, _, _)
TracedMatchFirstFrom(fdb, i, s) ==
    IF i > Len(fdb.Fingerprints)
    THEN {[m |-> NoMatch, trace |-> DebugLogf(fdb, "FP-FAIL %#v", <<s>>)]}
    ELSE LET f  == fdb.Fingerprints[i]
             ms == MatchResults(f, s)
         IN  {[m |-> m,
               trace |-> DebugLogf(fdb, "FP-MATCH %#v to %#v (%s)",
                                   <<s, f.Pattern, DescText(f)>>)] :
                  m \in {x \in ms : x.Matched}}
                 \cup (IF \E m \in ms : ~m.Matched
                       THEN TracedMatchFirstFrom(fdb, i + 1, s)
                       ELSE {})

TracedMatchFirst(fdb, s) == TracedMatchFirstFrom(fdb, 1, s)

\* FingerprintDB.MatchAll with what it writes to the logger
RECURSIVE TracedMatchAllFrom(_, _, _)
TracedMatchAllFrom(fdb, i, s) ==
    IF i > Len(fdb.Fingerprints) THEN {[ms |-> <<>>, trace |-> <<>>]}
    ELSE LET f == fdb.Fingerprints[i]
         IN  {IF m.Matched
              THEN [ms |-> <<m>> \o rest.ms,
                    trace |-> DebugLogf(fdb, "FP-MATCH %#v to %#v (%s)",
                                        <<s, f.Pattern, DescText(f)>>) \o rest.trace]
              ELSE rest :
                  m \in MatchResults(f, s),
                  rest \in TracedMatchAllFrom(fdb, i + 1, s)}

TracedMatchAll(fdb, s) ==
    {IF r.ms = <<>>
     THEN [r EXCEPT !.trace = DebugLogf(fdb, "FP-FAIL %#v", <<s>>)]
     ELSE r : r \in TracedMatchAllFrom(fdb, 1, s)}

\* FingerprintDB.MatchAll: the lists the scan from fingerprint i on can return
RECURSIVE MatchAllFrom(_, _, _)
MatchAllFrom(fps, i, s) ==
    IF i > Len(fps) THEN {<<>>}
    ELSE {IF m.Matched THEN <<m>> \o rest ELSE rest :
              m \in MatchResults(fps[i], s), rest \in MatchAllFrom(fps, i + 1, s)}

\* A MatchAll that puts each match in front of the list
RECURSIVE MatchAllReversedFrom(_, _, _)
MatchAllReversedFrom(fps, i, s) ==
    IF i > Len(fps) THEN {<<>>}
    ELSE {IF m.Matched THEN rest \o <<m>> ELSE rest :
              m \in MatchResults(fps[i], s), rest \in MatchAllReversedFrom(fps, i + 1, s)}

FDBMatchAllReversed(fdb, s) == MatchAllReversedFrom(fdb.Fingerprints, 1, s)

\* A MatchAll that appends the result of every fingerprint, matched or not
RECURSIVE MatchAllKeepingMissesFrom(_, _, _)
MatchAllKeepingMissesFrom(fps, i, s) ==
    IF i > Len(fps) THEN {<<>>}
    ELSE {<<m>> \o rest :
              m \in MatchResults(fps[i], s),
              rest \in MatchAllKeepingMissesFrom(fps, i + 1, s)}

FDBMatchAllKeepingMisses(fdb, s) ==
    MatchAllKeepingMissesFrom(fdb.Fingerprints, 1, s)

FDBMatchAll(fdb, s) == MatchAllFrom(fdb.Fingerprints, 1, s)

\* xml.Unmarshal and LoadFingerprintDB: a file's bytes are a document that
\* does not parse, or the database the document declares
LoadFingerprintDB(name, xmlData) ==
    IF ~xmlData.wellFormed
    THEN [err |-> "xml", fdb |-> xmlData.fdb]
    ELSE FDBNormalize([xmlData.fdb EXCEPT !.Name = name])

----------------------------------------------------------------------------
(* FingerprintSet *)

DotXml == <<".", "x", "m", "l">>

\* strings.Contains
Contains(s, sub) ==
    \E i \in 0..(Len(s) - Len(sub)) : SubSeq(s, i + 1, i + Len(sub)) = sub

\* A lookup that reports a missing database as a plain no-match
MissingResultSilent(name) ==
    [Matched |-> FALSE, Errors |-> <<>>, Values |-> EmptyMap]

MissingResult(name) ==
    [Matched |-> FALSE,
     Errors  |-> <<Errorf("database %s is missing", name)>>,
     Values  |-> EmptyMap]

\* FingerprintSet.MatchFirst: the results the call can return
SetMatchFirst(dbs, hp, name, s) ==
    IF ~HasKey(dbs, name) THEN {MissingResult(name)}
    ELSE FDBMatchFirst(hp[dbs[name]], s)

\* FingerprintSet.MatchAll: the lists the call can return
SetMatchAll(dbs, hp, name, s) ==
    IF ~HasKey(dbs, name) THEN {<<MissingResult(name)>>}
    ELSE FDBMatchAll(hp[dbs[name]], s)

\* A loop body that registers the database before it looks at the error
LoadEntryRegisteringFirst(f, st) ==
    IF ~Contains(f.name, DotXml) THEN st
    ELSE IF f.openErr THEN [st EXCEPT !.err = "failed to open"]
    ELSE IF f.readErr THEN [st EXCEPT !.err = "failed to read"]
    ELSE LET r == LoadFingerprintDB(f.name, f.xml)
             ptr == Len(st.heap) + 1
         IN  [st EXCEPT
                 !.err = IF r.err # "" THEN "failed to load" ELSE st.err,
                 !.heap = Append(st.heap, [r.fdb EXCEPT !.Logger = st.Logger]),
                 !.Databases = Put(Put(st.Databases, f.name, ptr),
                                   r.fdb.Matches, ptr)]

\* The body of the loop of LoadFingerprintsFromFS for the entry f, on the
\* registry state st
LoadEntry(f, st) ==
    IF ~Contains(f.name, DotXml) THEN st
    ELSE IF f.openErr THEN [st EXCEPT !.err = "failed to open"]
    ELSE IF f.readErr THEN [st EXCEPT !.err = "failed to read"]
    ELSE LET r == LoadFingerprintDB(f.name, f.xml)
             ptr == Len(st.heap) + 1
         IN  IF r.err # "" THEN [st EXCEPT !.err = "failed to load"]
             ELSE [st EXCEPT
                      !.heap = Append(st.heap, [r.fdb EXCEPT !.Logger = st.Logger]),
                      !.Databases = Put(Put(st.Databases, f.name, ptr),
                                        r.fdb.Matches, ptr)]

RECURSIVE LoadEntries(_, _)
LoadEntries(files, st) ==
    IF files = <<>> \/ st.err # "" THEN st
    ELSE LoadEntries(Tail(files), LoadEntry(Head(files), st))

\* FingerprintSet.LoadFingerprintsFromFS.  Readdir(65535) of a root without
\* entries returns io.EOF.
LoadFingerprintsFromFS(efs, st) ==
    IF efs.rootErr THEN [st EXCEPT !.err = "failed to open root"]
    ELSE IF efs.readdirErr \/ efs.files = <<>>
    THEN [st EXCEPT !.err = "failed to read root"]
    ELSE LoadEntries(efs.files, [st EXCEPT !.err = ""])

----------------------------------------------------------------------------
(* The values the model draws from *)

\* the longest parameter list of a fingerprint of the Match harness
MaxParams == 2

\* the longest input handed to a database
MaxDataLen == 2

\* the most databases loads may allocate before a new set is made
MaxHeap == 2

\* The sequences over S of length at most n
SeqsUpTo(S, n) == UNION {[1..k -> S] : k \in 0..n}

\* The sequences of distinct elements of S of length at most n
DistinctSeqsUpTo(S, n) ==
    {q \in SeqsUpTo(S, n) : \A i, j \in 1..Len(q) : i # j => q[i] # q[j]}

Param(pos, name, value) == [Position |-> pos, Name |-> name, Value |-> value]

NoDescription == [nil |-> TRUE, Text |-> <<>>]
Description(text) == [nil |-> FALSE, Text |-> text]

\* A fingerprint as xml.Unmarshal leaves it
Fingerprint(pattern, flags, desc, params, certainty) ==
    [Pattern |-> pattern, Flags |-> flags, Description |-> desc,
     Examples |-> <<>>, Params |-> params, Certainty |-> certainty,
     PatternCompiled |-> NilRegexp]

NameA == <<"a">>
NameB == <<"b">>
NameTmp == TmpPrefix \o <<"t">>

\* The parameter rules of the Match harness: literal and templated static
\* values, valid capture positions, and positions that are not numbers, not
\* positive, or "0" written otherwise
HarnessParams ==
    { Param(PosZero, NameA, <<"v">>),
      Param(PosZero, NameB, <<"w">>),
      Param(PosZero, NameA, <<"{", "b", "}">>),
      Param(PosZero, NameB, <<"{", "a", "}">>),
      Param(PosZero, NameB, <<"{", "u", "}", "{", "a", "}">>),
      Param(PosZero, NameTmp, <<"t">>),
      Param(PosZero, NameA, Braced(NameTmp)),
      Param(<<"1">>, NameA, <<>>),
      Param(<<"2">>, NameB, <<>>),
      Param(<<"x">>, NameB, <<>>),
      Param(<<"-", "1">>, NameB, <<>>),
      Param(<<"0", "0">>, NameA, <<>>) }

HarnessClass == Letters \cup {".", "{", "}"}

\* x([a-zA.{}]+) and ([a]+)x([a-zA.{}]+) and x
HarnessPatterns ==
    { <<Lit("x"), Cap(HarnessClass)>>,
      <<Cap({"a"}), Lit("x"), Cap(HarnessClass)>>,
      <<Lit("x")>> }

HarnessInputs ==
    { <<>>,
      <<"a">>,
      <<"x">>,
      <<"x", "a">>,
      <<"a", "x", "b">>,
      <<"x", "{", "b", "}">>,
      <<"a", "x", "{", "u", "}">>,
      <<"x">> \o Braced(FpCertaintyKey) }

\* a fingerprint without description and certainty, and one with both
HarnessHeads ==
    { [desc |-> NoDescription, certainty |-> <<>>],
      [desc |-> Description(<<"d">>), certainty |-> <<"0", ".", "5">>] }

HarnessFingerprints ==
    {FpNormalize(Fingerprint(pat, <<>>, h.desc, ps, h.certainty)).fp :
        pat \in HarnessPatterns, h \in HarnessHeads,
        ps \in SeqsUpTo(HarnessParams, MaxParams)}

Attr(name, value) == [Name |-> name, Value |-> value]

\* An example as xml.Unmarshal leaves it
Example(text, values) == [Text |-> text, Values |-> values, AttributeMap |-> EmptyMap]

\* the most examples of the first fingerprint of a database under verification
MaxExamples == 2

\* The directory of the example files: f holds xa, h holds its base64 form
\* and a newline
HarnessDir ==
    Put(Put(EmptyMap, <<"f">>, <<"x", "a">>), <<"h">>, <<"e", "G", "E", "=", "\n">>)

\* The examples of the verification harness: inline, in a file, base64 with
\* and without white space, with attributes the rules give, give otherwise
\* or do not give
HarnessExamples ==
    { Example(<<"x", "a">>, <<>>),
      Example(<<"x", "a">>, <<Attr(NameA, <<"v">>)>>),
      Example(<<"x", "a">>, <<Attr(NameA, <<"w">>)>>),
      Example(<<"x", "a">>, <<Attr(<<"c">>, <<"z">>)>>),
      Example(<<"x", "a">>, <<Attr(NameA, <<"v">>), Attr(NameB, <<"a">>)>>),
      Example(<<"x", "a">>, <<Attr(NameA, Braced(NameA))>>),
      Example(<<"a">>, <<>>),
      Example(<<" ", "e", " ", "G", "\n", "E", "=", " ">>,
              <<Attr(EncodingKey, Base64Name), Attr(NameB, <<"a">>)>>),
      Example(<<"e", "G", "=">>, <<Attr(EncodingKey, Base64Name)>>),
      Example(<<"a">>, <<Attr(FilenameKey, <<"f">>), Attr(NameA, <<"v">>)>>),
      Example(<<"x", "a">>, <<Attr(FilenameKey, <<"g">>)>>),
      Example(<<"a">>, <<Attr(FilenameKey, <<"h">>), Attr(EncodingKey, Base64Name)>>),
      Example(<<"e", "G", "E", "=">>, <<Attr(EncodingKey, <<"h", "e", "x">>)>>) }

\* The rule lists of the verification harness: plain, two static values that
\* reference each other, and a group the pattern does not have
HarnessRuleLists ==
    { <<Param(PosZero, NameA, <<"v">>), Param(<<"1">>, NameB, <<>>)>>,
      <<Param(PosZero, NameA, Braced(NameB)), Param(PosZero, NameB, Braced(NameA))>>,
      <<Param(<<"2">>, NameB, <<>>)>> }

\* the examples of the second fingerprint of a database under verification
HarnessSecondExamples ==
    { <<Example(<<"x", "a">>, <<Attr(NameA, <<"v">>)>>)>>,
      <<Example(<<"x", "a">>, <<Attr(NameA, <<"w">>)>>)>> }

\* A fingerprint x([a-zA.{}]+) with the given rules and examples
VerifiedFingerprint(ps, exs) ==
    [Fingerprint(<<Lit("x"), Cap(HarnessClass)>>, <<>>, NoDescription, ps, <<>>)
        EXCEPT !.Examples = exs]

\* The corpus of the registry: three databases, two of them with the same
\* match target and one whose match target is the name of another file
FileA == <<"a", ".", "x", "m", "l">>
FileB == <<"b", ".", "x", "m", "l">>
FileC == <<"c", ".", "x", "m", "l">>
FileD == <<"d", ".", "x", "m", "l">>
FileE == <<"e", ".", "x", "m", "l">>
FileF == <<"f", ".", "x", "m", "l">>
FileG == <<"g", ".", "x", "m", "l">>
FileReadme == <<"R", "E", "A", "D", "M", "E">>
TargetM == <<"m">>
UnknownKey == <<"z">>

Database(matches, fps) ==
    [Matches |-> matches, Protocol |-> <<>>, DatabaseType |-> <<>>,
     Preference |-> <<>>, Fingerprints |-> fps, Name |-> <<>>,
     Logger |-> NilLogger]

File(name, wellFormed, fdb) ==
    [name |-> name, openErr |-> FALSE, readErr |-> FALSE,
     xml |-> [wellFormed |-> wellFormed, fdb |-> fdb]]

\* xa, then x, then ([a]+): the first rule list asks for a group the pattern
\* does not have; the second fingerprint declares a certainty, and the database
\* a preference
DatabaseA ==
    [Database(TargetM,
        << Fingerprint(<<Lit("x"), Lit("a")>>, <<>>, Description(<<"x", "a">>),
                       <<Param(PosZero, NameA, <<"v">>), Param(<<"1">>, NameB, <<>>)>>,
                       <<>>),
           Fingerprint(<<Lit("x")>>, <<>>, NoDescription,
                       <<Param(PosZero, NameA, <<"w">>)>>, <<"0", ".", "5">>),
           Fingerprint(<<Cap({"a"})>>, <<>>, NoDescription,
                       <<Param(<<"1">>, NameB, <<>>)>>, <<>>) >>)
        EXCEPT !.Preference = <<"0", ".", "9">>]

\* a, with an example in base64 that its rule satisfies
DatabaseB ==
    Database(TargetM,
        << [Fingerprint(<<Lit("a")>>, <<>>, NoDescription,
                        <<Param(PosZero, NameB, <<"v">>)>>, <<>>)
               EXCEPT !.Examples =
                   << Example(<<"Y", "Q", "=", "=">>,
                              <<Attr(EncodingKey, Base64Name),
                                Attr(NameB, <<"v">>)>>) >>] >>)

\* ([x]+), with an example its rule satisfies and one it does not, and then
\* a, with two static values that refer to each other
DatabaseC ==
    Database(FileA,
        << [Fingerprint(<<Cap({"x"})>>, <<>>, NoDescription,
                        <<Param(<<"1">>, NameA, <<>>)>>, <<>>)
               EXCEPT !.Examples =
                   << Example(<<"x">>, <<Attr(NameA, <<"x">>)>>),
                      Example(<<"x", "x">>, <<Attr(NameA, <<"x">>)>>) >>],
           Fingerprint(<<Lit("a")>>, <<>>, NoDescription,
                       <<Param(PosZero, NameA, Braced(NameB)),
                         Param(PosZero, NameB, Braced(NameA))>>, <<>>) >>)

\* the second pattern of three does not parse
DatabaseE ==
    Database(<<"e">>,
        << Fingerprint(<<Lit("x")>>, <<>>, NoDescription, <<>>, <<>>),
           Fingerprint(<<Lit("x"), Bad>>, <<>>, NoDescription, <<>>, <<>>),
           Fingerprint(<<Lit("a")>>, <<>>, NoDescription, <<>>, <<>>) >>)

NoDatabase == Database(<<>>, <<>>)

CorpusFiles ==
    { File(FileA, TRUE, DatabaseA),
      File(FileB, TRUE, DatabaseB),
      File(FileC, TRUE, DatabaseC),
      File(FileD, FALSE, NoDatabase),
      File(FileE, TRUE, DatabaseE),
      [File(FileF, TRUE, DatabaseB) EXCEPT !.openErr = TRUE],
      [File(FileG, TRUE, DatabaseB) EXCEPT !.readErr = TRUE],
      File(FileReadme, FALSE, NoDatabase) }

\* A source: its root does not open, or does not list, or lists some files of
\* the corpus in some order
Source(rootErr, readdirErr, files) ==
    [rootErr |-> rootErr, readdirErr |-> readdirErr, files |-> files]

Sources(n) ==
    {Source(TRUE, FALSE, <<>>), Source(FALSE, TRUE, <<>>)}
        \cup {Source(FALSE, FALSE, files) : files \in DistinctSeqsUpTo(CorpusFiles, n)}

QueryKeys == {FileA, FileB, FileC, TargetM, UnknownKey}

QueryInputs == SeqsUpTo({"x", "a"}, MaxDataLen)

----------------------------------------------------------------------------
(* The registry: loads and queries *)

Call(op, key, s, m, ms) ==
    [op |-> op, key |-> key, data |-> s, m |-> m, ms |-> ms,
     err |-> NilError, log |-> <<>>, fdb |-> NoDatabase]

NoCall == Call("", <<>>, <<>>, NoMatch, <<>>)

NoFingerprint == Fingerprint(<<>>, <<>>, NoDescription, <<>>, <<>>)

Init ==
    /\ heap = <<>>
    /\ Databases = EmptyMap
    /\ loadErr = ""
    /\ fp = NoFingerprint
    /\ data = <<>>
    /\ ret = NoCall
    /\ threads = <<>>
    /\ results = EmptyMap
    /\ drift = NoProcess

\* The caller makes one call at a time and holds its result until it drops it
Pending == ret.op \in {"MatchFirst", "MatchAll", "Match"}

\* The caller drops the result it holds
Return ==
    /\ Pending
    /\ ret' = NoCall
    /\ UNCHANGED <<heap, Databases, loadErr, fp, data, threads, results, drift>>

\* NewFingerprintSet
NewFingerprintSet ==
    /\ ~Pending
    /\ heap' = <<>>
    /\ Databases' = EmptyMap
    /\ loadErr' = ""
    /\ ret' = Call("New", <<>>, <<>>, NoMatch, <<>>)
    /\ UNCHANGED <<fp, data, threads, results, drift>>

\* fs.LoadFingerprintsFromFS(efs), on the set the caller holds
Load ==
    /\ ~Pending
    /\ \E efs \in Sources(MaxHeap - Len(heap)) :
        LET st == LoadFingerprintsFromFS(efs,
                      [heap |-> heap, Databases |-> Databases, err |-> loadErr,
                       Logger |-> NilLogger])
        IN  /\ heap' = st.heap
            /\ Databases' = st.Databases
            /\ loadErr' = st.err
            /\ ret' = Call("Load", <<>>, <<>>, NoMatch, <<>>)
            /\ UNCHANGED <<fp, data, threads, results, drift>>

\* fs.MatchFirst(name, s)
CallMatchFirst ==
    /\ ~Pending
    /\ \E name \in QueryKeys, s \in QueryInputs :
        \E m \in SetMatchFirst(Databases, heap, name, s) :
            /\ ret' = Call("MatchFirst", name, s, m, <<>>)
            /\ UNCHANGED <<heap, Databases, loadErr, fp, data, threads, results, drift>>

\* fs.MatchAll(name, s)
CallMatchAll ==
    /\ ~Pending
    /\ \E name \in QueryKeys, s \in QueryInputs :
        \E ms \in SetMatchAll(Databases, heap, name, s) :
            /\ ret' = Call("MatchAll", name, s, NoMatch, ms)
            /\ UNCHANGED <<heap, Databases, loadErr, fp, data, threads, results, drift>>

\* LoadFingerprintDB(name, xmlData), called directly on the bytes of a file of
\* the corpus: the caller receives the database value and the error
CallLoadFingerprintDB ==
    /\ ~Pending
    /\ \E f \in CorpusFiles :
        LET r == LoadFingerprintDB(f.name, f.xml)
        IN  /\ ret' = [Call("LoadFingerprintDB", f.name, <<>>, NoMatch, <<>>)
                          EXCEPT !.err = IF r.err = "" THEN NilError
                                         ELSE Errorf(r.err, <<>>),
                                 !.fdb = r.fdb]
            /\ UNCHANGED <<heap, Databases, loadErr, fp, data, threads, results, drift>>

\* fs.Databases[name].Fingerprints[j].Match(s)
CallFingerprintMatch ==
    /\ ~Pending
    /\ \E name \in DOMAIN Databases, s \in QueryInputs :
        \E j \in 1..Len(heap[Databases[name]].Fingerprints) :
            \E m \in MatchResults(heap[Databases[name]].Fingerprints[j], s) :
                /\ ret' = Call("Match", name, s, m, <<>>)
                /\ UNCHANGED <<heap, Databases, loadErr, fp, data, threads, results, drift>>

\* fs.Databases[name].VerifyExamples(fpath)
CallVerifyExamples ==
    /\ ~Pending
    /\ \E name \in DOMAIN Databases :
        \E r \in FDBVerifyExamples(heap[Databases[name]], HarnessDir) :
            /\ heap' = [heap EXCEPT ![Databases[name]] = r.fdb]
            /\ ret' = [Call("VerifyExamples", name, <<>>, NoMatch, <<>>)
                          EXCEPT !.err = r.err, !.log = r.log]
            /\ UNCHANGED <<Databases, loadErr, fp, data, threads, results, drift>>

Next ==
    \/ NewFingerprintSet
    \/ Load
    \/ CallLoadFingerprintDB
    \/ CallMatchFirst
    \/ CallMatchAll
    \/ CallFingerprintMatch
    \/ CallVerifyExamples
    \/ Return

Spec == Init /\ [][Next]_vars

----------------------------------------------------------------------------
(* The Match harness: one normalized fingerprint, one input *)

InitMatch ==
    /\ heap = <<>>
    /\ Databases = EmptyMap
    /\ loadErr = ""
    /\ fp \in HarnessFingerprints
    /\ data \in HarnessInputs
    /\ ret = NoCall
    /\ threads = <<>>
    /\ results = EmptyMap
    /\ drift = NoProcess

\* fp.Match(data)
CallMatch ==
    /\ ~Pending
    /\ \E m \in MatchResults(fp, data) :
        /\ ret' = Call("Match", <<>>, data, m, <<>>)
        /\ UNCHANGED <<heap, Databases, loadErr, fp, data, threads, results, drift>>

NextMatch == CallMatch \/ Return

SpecMatch == InitMatch /\ [][NextMatch]_vars

----------------------------------------------------------------------------
(* The static-value harness: fingerprints whose rules are static values    *)
(* with placeholders, cpe: prefixes and white space                         *)

OsVersionKey == <<"o", "s", ".", "v", "e", "r", "s", "i", "o", "n">>

\* Static values that reference service.version, os.version or b, with and
\* without the cpe: prefix and surrounding white space, and the rules that
\* give those keys an empty or a non-empty value
StaticParams ==
    { Param(PosZero, NameA, CpePrefix \o Braced(ServiceVersionKey)),
      Param(PosZero, NameA, <<"x">> \o Braced(ServiceVersionKey)),
      Param(PosZero, NameA, CpePrefix \o Braced(NameB) \o <<"z">>),
      Param(PosZero, NameA, CpePrefix \o Braced(OsVersionKey)),
      Param(PosZero, NameA, <<" ", "v", " ">>),
      Param(PosZero, NameA, <<" ">> \o Braced(NameB) \o <<"\t">>),
      Param(PosZero, ServiceVersionKey, <<>>),
      Param(PosZero, ServiceVersionKey, <<"1">>),
      Param(<<"1">>, ServiceVersionKey, <<>>),
      Param(PosZero, OsVersionKey, <<>>),
      Param(PosZero, NameB, <<>>),
      Param(PosZero, NameB, <<"w", " ">>) }

StaticInputs == {<<"x", "a">>, <<"x", "b">>, <<"a">>}

StaticFingerprints ==
    {FpNormalize(Fingerprint(<<Lit("x"), Cap(HarnessClass)>>, <<>>,
                             NoDescription, ps, <<>>)).fp :
        ps \in SeqsUpTo(StaticParams, MaxParams)}

InitStatic ==
    /\ heap = <<>>
    /\ Databases = EmptyMap
    /\ loadErr = ""
    /\ fp \in StaticFingerprints
    /\ data \in StaticInputs
    /\ ret = NoCall
    /\ threads = <<>>
    /\ results = EmptyMap
    /\ drift = NoProcess

SpecStatic == InitStatic /\ [][NextMatch]_vars

----------------------------------------------------------------------------
(* The Normalize harness: one definition as it was parsed, one input *)

\* x, (?m)x.a, x\u0000, A, and x with an unclosed group
RawPatterns ==
    { <<Lit("x")>>,
      <<MFlag, Lit("x"), AnyChar, Lit("a")>>,
      <<Lit("x"), NulU>>,
      <<Lit("A")>>,
      <<Lit("x"), Bad>> }

\* flag strings, as their words and separators
RawFlags ==
    { <<>>,
      <<"REG_ICASE">>,
      <<"REG_DOT_NEWLINE", "|", "bogus">>,
      <<"IGNORECASE", ",", "REG_MULTILINE">>,
      <<"REG_ICASE", "X", "|", "REG_LINE_ANY_CRLF">>,
      <<"bogus", ",", ",", "reg_icase">> }

RawExamples ==
    { <<>>,
      << Example(<<"x">>, <<Attr(NameA, <<"v">>), Attr(NameB, <<"w">>)>>),
         Example(<<"a">>, <<Attr(EncodingKey, Base64Name)>>) >> }

RawCertainties == {<<>>, <<"0", ".", "5">>}

RawFingerprints ==
    { [Fingerprint(pat, flags, NoDescription, <<Param(PosZero, NameA, <<"v">>)>>, c)
          EXCEPT !.Examples = exs] :
        pat \in RawPatterns, flags \in RawFlags,
        exs \in RawExamples, c \in RawCertainties }

RawInputs == {<<"x">>, <<"x", "\n", "a">>, <<"a">>, <<"x", NUL>>}

InitNormalize ==
    /\ heap = <<>>
    /\ Databases = EmptyMap
    /\ loadErr = ""
    /\ fp \in RawFingerprints
    /\ data \in RawInputs
    /\ ret = NoCall
    /\ threads = <<>>
    /\ results = EmptyMap
    /\ drift = NoProcess

\* fp.Normalize()
CallNormalize ==
    /\ ~Pending
    /\ LET r == FpNormalize(fp)
       IN  /\ fp' = r.fp
           /\ ret' = [Call("Normalize", <<>>, <<>>, NoMatch, <<>>)
                         EXCEPT !.err = IF r.err = "" THEN NilError
                                        ELSE Errorf(r.err, fp.Pattern)]
    /\ UNCHANGED <<heap, Databases, loadErr, data, threads, results, drift>>

\* fp.Match(data), on a definition Normalize has accepted
CallMatchNormalized ==
    /\ ret.op = "Normalize"
    /\ ret.err = NilError
    /\ CallMatch

NextNormalize == CallNormalize \/ CallMatchNormalized \/ Return

SpecNormalize == InitNormalize /\ [][NextNormalize]_vars

----------------------------------------------------------------------------
(* The verification harness: one loaded database with examples *)

\* The databases under verification: two fingerprints, as LoadFingerprintDB
\* returns them
VerifiedDatabases ==
    { LoadFingerprintDB(FileA,
          [wellFormed |-> TRUE,
           fdb |-> Database(TargetM,
                      << VerifiedFingerprint(ps, exs),
                         VerifiedFingerprint(
                             <<Param(PosZero, NameA, <<"v">>)>>, exs2) >>)]).fdb :
        ps \in HarnessRuleLists,
        exs \in SeqsUpTo(HarnessExamples, MaxExamples),
        exs2 \in HarnessSecondExamples }

InitVerify ==
    /\ heap \in {<<fdb>> : fdb \in VerifiedDatabases}
    /\ Databases = Put(Put(EmptyMap, FileA, 1), TargetM, 1)
    /\ loadErr = ""
    /\ fp = NoFingerprint
    /\ data = <<>>
    /\ ret = NoCall
    /\ threads = <<>>
    /\ results = EmptyMap
    /\ drift = NoProcess

NextVerify == CallVerifyExamples

SpecVerify == InitVerify /\ [][NextVerify]_vars

----------------------------------------------------------------------------
(* The trace harness: one load by a set with or without a logger, then     *)
(* queries on the databases it registered                                   *)

InitTrace ==
    /\ \E efs \in Sources(MaxHeap), logger \in {NilLogger, Sink} :
          LET st == LoadFingerprintsFromFS(efs,
                        [heap |-> <<>>, Databases |-> EmptyMap, err |-> "",
                         Logger |-> logger])
          IN  /\ heap = st.heap
              /\ Databases = st.Databases
              /\ loadErr = st.err
    /\ fp = NoFingerprint
    /\ data = <<>>
    /\ ret = NoCall
    /\ threads = <<>>
    /\ results = EmptyMap
    /\ drift = NoProcess

\* fs.Databases[name].MatchFirst(s)
CallTracedMatchFirst ==
    /\ ~Pending
    /\ \E name \in DOMAIN Databases, s \in QueryInputs :
        \E r \in TracedMatchFirst(heap[Databases[name]], s) :
            /\ ret' = [Call("MatchFirst", name, s, r.m, <<>>) EXCEPT !.log = r.trace]
            /\ UNCHANGED <<heap, Databases, loadErr, fp, data, threads, results, drift>>

\* fs.Databases[name].MatchAll(s)
CallTracedMatchAll ==
    /\ ~Pending
    /\ \E name \in DOMAIN Databases, s \in QueryInputs :
        \E r \in TracedMatchAll(heap[Databases[name]], s) :
            /\ ret' = [Call("MatchAll", name, s, NoMatch, r.ms) EXCEPT !.log = r.trace]
            /\ UNCHANGED <<heap, Databases, loadErr, fp, data, threads, results, drift>>

NextTrace == CallTracedMatchFirst \/ CallTracedMatchAll \/ Return

SpecTrace == InitTrace /\ [][NextTrace]_vars

----------------------------------------------------------------------------
(* The concurrent harness: goroutines that query one loaded registry *)

\* the most goroutines that query at the same time
MaxThreads == 2

Threads == 1..MaxThreads

\* the registry after fs.LoadFingerprintsFromFS on a source that lists a.xml
\* and b.xml
LoadedRegistry ==
    LoadFingerprintsFromFS(
        Source(FALSE, FALSE, <<File(FileA, TRUE, DatabaseA), File(FileB, TRUE, DatabaseB)>>),
        [heap |-> <<>>, Databases |-> EmptyMap, err |-> "", Logger |-> NilLogger])

ConcurrentKeys == {FileA, UnknownKey}

ConcurrentInputs == {<<"x", "a">>, <<"a">>}

\* the nil *FingerprintMatch
NoAddr == <<0, 0>>

\* A goroutine about to call fs.MatchFirst(key, s) or fs.MatchAll(key, s)
Thread(op, key, s) ==
    [pc |-> "start", op |-> op, key |-> key, data |-> s,
     nomatch |-> NoAddr, fdb |-> 0, dbnomatch |-> NoAddr, i |-> 0,
     res |-> NoAddr, acc |-> <<>>, out |-> <<>>, overlapped |-> FALSE]

\* One pooled FingerprintMatch that every call builds its result in
AllocPooled(rs, t) == <<0, 1>>

\* &FingerprintMatch{...}: an address no object has yet
Alloc(rs, t) == <<t, 1 + Cardinality({a \in DOMAIN rs : a[1] = t})>>

\* goroutine t stores m in the object at address a
Write(rs, a, m, t) ==
    Put(rs, a, [val |-> m,
                writers |-> (IF a \in DOMAIN rs THEN rs[a].writers ELSE {}) \cup {t}])

\* some other goroutine is inside its call
Busy(t) == \E u \in Threads \ {t} : threads[u].pc \notin {"start", "done"}

\* goroutine t moves on as th
Step(t, th) ==
    [threads EXCEPT ![t] = [th EXCEPT !.overlapped = @ \/ Busy(t)]]

InitConcurrent ==
    /\ heap = LoadedRegistry.heap
    /\ Databases = LoadedRegistry.Databases
    /\ loadErr = LoadedRegistry.err
    /\ fp = NoFingerprint
    /\ data = <<>>
    /\ ret = NoCall
    /\ threads \in [Threads ->
                      {Thread(op, key, s) : op \in {"MatchFirst", "MatchAll"},
                                            key \in ConcurrentKeys,
                                            s \in ConcurrentInputs}]
    /\ results = EmptyMap
    /\ drift = NoProcess

\* FingerprintSet.MatchFirst / MatchAll up to the call on the database:
\* nomatch is allocated, the key looked up, and a missing database reported
SetCall(t) ==
    LET th == threads[t]
        a  == Alloc(results, t)
    IN  /\ th.pc = "start"
        /\ IF ~HasKey(Databases, th.key)
           THEN /\ results' = Write(results, a, MissingResult(th.key), t)
                /\ threads' = Step(t, [th EXCEPT !.nomatch = a, !.out = <<a>>,
                                                 !.pc = "done"])
           ELSE /\ results' = Write(results, a, NoMatch, t)
                /\ threads' = Step(t, [th EXCEPT !.nomatch = a,
                                                 !.fdb = Databases[th.key],
                                                 !.pc = "db"])
        /\ UNCHANGED <<heap, Databases, loadErr, fp, data, ret, drift>>

\* FingerprintDB.MatchFirst / MatchAll up to the loop: MatchFirst allocates
\* its nomatch, MatchAll its empty list
DBEnter(t) ==
    LET th  == threads[t]
        a   == Alloc(results, t)
        fps == heap[th.fdb].Fingerprints
    IN  /\ th.pc = "db"
        /\ IF th.op = "MatchFirst"
           THEN /\ results' = Write(results, a, NoMatch, t)
                /\ threads' = Step(t, [th EXCEPT
                                  !.dbnomatch = a, !.i = 1,
                                  !.out = IF fps = <<>> THEN <<a>> ELSE <<>>,
                                  !.pc = IF fps = <<>> THEN "done" ELSE "scan"])
           ELSE /\ results' = results
                /\ threads' = Step(t, [th EXCEPT
                                  !.i = 1,
                                  !.pc = IF fps = <<>> THEN "done" ELSE "scan"])
        /\ UNCHANGED <<heap, Databases, loadErr, fp, data, ret, drift>>

\* Fingerprint.Match on fingerprint i: res := &FingerprintMatch{Matched: false}
MatchBegin(t) ==
    LET th == threads[t]
        a  == Alloc(results, t)
    IN  /\ th.pc = "scan"
        /\ results' = Write(results, a, NoMatch, t)
        /\ threads' = Step(t, [th EXCEPT !.res = a, !.pc = "fill"])
        /\ UNCHANGED <<heap, Databases, loadErr, fp, data, ret, drift>>

\* The rest of Fingerprint.Match, which fills res, and the loop body around
\* it: MatchFirst returns a match, MatchAll appends it, and both go on to the
\* next fingerprint or return
MatchEnd(t) ==
    LET th  == threads[t]
        fps == heap[th.fdb].Fingerprints
        end == th.i + 1 > Len(fps)
    IN  /\ th.pc = "fill"
        /\ \E m \in MatchResults(fps[th.i], th.data) :
            /\ results' = Write(results, th.res, m, t)
            /\ threads' = Step(t,
                   IF th.op = "MatchFirst"
                   THEN IF m.Matched
                        THEN [th EXCEPT !.out = <<th.res>>, !.pc = "done"]
                        ELSE IF end
                        THEN [th EXCEPT !.out = <<th.dbnomatch>>, !.pc = "done"]
                        ELSE [th EXCEPT !.i = th.i + 1, !.pc = "scan"]
                   ELSE LET acc == IF m.Matched THEN Append(th.acc, th.res)
                                   ELSE th.acc
                        IN  IF end
                            THEN [th EXCEPT !.acc = acc, !.out = acc, !.pc = "done"]
                            ELSE [th EXCEPT !.acc = acc, !.i = th.i + 1,
                                            !.pc = "scan"])
        /\ UNCHANGED <<heap, Databases, loadErr, fp, data, ret, drift>>

NextConcurrent ==
    \E t \in Threads : SetCall(t) \/ DBEnter(t) \/ MatchBegin(t) \/ MatchEnd(t)

SpecConcurrent == InitConcurrent /\ [][NextConcurrent]_vars

----------------------------------------------------------------------------
(* Claims about the database and the registry, checked under Spec *)

Matches(f, s) == Len(FindStringSubmatch(f.PatternCompiled, s)) > 0

\* the fingerprints of the database registered under key
RegisteredFingerprints(key) == heap[Databases[key]].Fingerprints

\* the indexes of the fingerprints of fps that match s, in declared order
Hits(fps, s) ==
    LET Hit(i) == Matches(fps[i], s)
    IN  SelectSeq([i \in 1..Len(fps) |-> i], Hit)

\* C1: MatchFirst on a database returns a result of the first fingerprint, in
\* declared order, whose pattern matches the input, with or without soft
\* errors, and the matched=false result when no fingerprint matches.
C1_MatchFirstReturnsFirstMatch ==
    (ret.op = "MatchFirst" /\ HasKey(Databases, ret.key)) =>
        LET fps  == RegisteredFingerprints(ret.key)
            hits == Hits(fps, ret.data)
        IN  IF hits = <<>>
            THEN ret.m = NoMatch
            ELSE /\ ret.m.Matched
                 /\ ret.m \in MatchResults(fps[hits[1]], ret.data)
                 /\ \A j \in 2..Len(hits) :
                        ret.m \notin MatchResults(fps[hits[j]], ret.data)

\* C1 witness: the first match carries a soft error and a later fingerprint
\* matches too
C1_Witness ==
    /\ ret.op = "MatchFirst"
    /\ HasKey(Databases, ret.key)
    /\ Len(Hits(RegisteredFingerprints(ret.key), ret.data)) >= 2
    /\ ret.m.Matched
    /\ ret.m.Errors # <<>>

\* C5: a query with an unregistered key returns a matched=false result with
\* exactly one lookup error that names the key; MatchAll returns a list of
\* exactly that one result.
C5_UnknownKeyIsSoft ==
    LET Missing(m) ==
            /\ ~m.Matched
            /\ m.Values = EmptyMap
            /\ Len(m.Errors) = 1
            /\ m.Errors[1].format = "database %s is missing"
            /\ m.Errors[1].arg = ret.key
    IN  /\ (ret.op = "MatchFirst" /\ ~HasKey(Databases, ret.key)) => Missing(ret.m)
        /\ (ret.op = "MatchAll" /\ ~HasKey(Databases, ret.key)) =>
               (Len(ret.ms) = 1 /\ Missing(ret.ms[1]))

\* C5 witness: the unknown key is queried on a registry that a failed load
\* left with databases
C5_Witness ==
    /\ ret.op = "MatchAll"
    /\ ~HasKey(Databases, ret.key)
    /\ loadErr # ""
    /\ Databases # EmptyMap
    /\ Len(ret.ms) = 1

\* C6: MatchAll on a database returns one result for each fingerprint whose
\* pattern matches the input, in declared order, and nothing else.
C6_MatchAllReturnsEveryMatch ==
    (ret.op = "MatchAll" /\ HasKey(Databases, ret.key)) =>
        LET fps  == RegisteredFingerprints(ret.key)
            hits == Hits(fps, ret.data)
        IN  /\ Len(ret.ms) = Len(hits)
            /\ \A j \in 1..Len(hits) :
                   /\ ret.ms[j].Matched
                   /\ ret.ms[j] \in MatchResults(fps[hits[j]], ret.data)

\* C6 witness: three fingerprints of a database match the input
C6_Witness ==
    /\ ret.op = "MatchAll"
    /\ HasKey(Databases, ret.key)
    /\ Len(ret.ms) = 3

\* the results a query of the registry can return
QueryResults(key, s) == SetMatchFirst(Databases, heap, key, s)

\* C3: after a successful load, for every database the load created, a query
\* under its source name and a query under its match target return the same
\* results for every input.
C3_AliasesAgree ==
    (ret.op = "Load" /\ loadErr = "") =>
        \A h \in 1..Len(heap) : \A s \in QueryInputs :
            QueryResults(heap[h].Name, s) = QueryResults(heap[h].Matches, s)

\* C4: a load that returns an error registers nothing in the set the caller
\* holds.
C4_LoadIsAllOrNothing ==
    [][(ret'.op = "Load" /\ loadErr' # "") => Databases' = Databases]_vars

\* the database a file of the corpus declares, as xml.Unmarshal leaves it
Parsed(name) == (CHOOSE f \in CorpusFiles : f.name = name).xml.fdb

\* C15: when normalization of a database fails, the definitions before the
\* first failing one are normalized in declared order and the ones after it
\* are left as parsed; no registered database holds a definition without a
\* compiled matcher; and the database the loader returns with the error holds
\* no definition that can be matched.
C15_FailedNormalizeExposesNothing ==
    /\ \A h \in 1..Len(heap) : \A j \in 1..Len(heap[h].Fingerprints) :
            ~heap[h].Fingerprints[j].PatternCompiled.nil
    /\ (ret.op = "LoadFingerprintDB" /\ ret.err = Errorf("bad regexp syntax", <<>>)) =>
            LET raw == Parsed(ret.key).Fingerprints
                got == ret.fdb.Fingerprints
            IN  /\ Len(got) = Len(raw)
                /\ \E k \in 1..Len(raw) :
                        /\ FpNormalize(raw[k]).err # ""
                        /\ \A j \in 1..(k - 1) :
                               /\ FpNormalize(raw[j]).err = ""
                               /\ got[j] = FpNormalize(raw[j]).fp
                        /\ \A j \in (k + 1)..Len(raw) : got[j] = raw[j]
                /\ \A j \in 1..Len(got) : got[j].PatternCompiled.nil

\* what MatchFirst returns when MatchAll returns the list ms
FirstOf(ms) == IF ms = <<>> THEN NoMatch ELSE ms[1]

C26_AliasesPointToTheirDatabases ==
    \A k \in DOMAIN Databases :
        /\ Databases[k] \in 1..Len(heap)
        /\ LET fdb == heap[Databases[k]]
           IN  /\ fdb.Name = k \/ fdb.Matches = k
               /\ \A j \in 1..Len(fdb.Fingerprints) :
                      ~fdb.Fingerprints[j].PatternCompiled.nil

\* after a failed load the set holds two databases, and a file name is the
\* alias of the database that names it as its match target
C26_Witness ==
    /\ loadErr # ""
    /\ Len(heap) = 2
    /\ \E k \in DOMAIN Databases :
          heap[Databases[k]].Name # k /\ heap[Databases[k]].Matches = k
                                     /\ k = FileA

\* C17: after a load, a match of a fingerprint that declares no certainty
\* carries fp.certainty = "0.85" and a match of one that declares a certainty
\* carries the declared value, whatever preference the database declares, when
\* no rule of the fingerprint is named fp.certainty.
C17_CertaintyIsDeclaredOrDefault ==
    (ret.op \in {"MatchFirst", "MatchAll"} /\ HasKey(Databases, ret.key)) =>
        LET fdb  == heap[Databases[ret.key]]
            raw  == Parsed(fdb.Name).Fingerprints
            hits == Hits(fdb.Fingerprints, ret.data)
            Reports(m, j) ==
                (\A p \in 1..Len(raw[j].Params) :
                     raw[j].Params[p].Name # FpCertaintyKey) =>
                    /\ HasKey(m.Values, FpCertaintyKey)
                    /\ m.Values[FpCertaintyKey] =
                           IF raw[j].Certainty = <<>> THEN <<"0", ".", "8", "5">>
                           ELSE raw[j].Certainty
        IN  /\ (ret.op = "MatchFirst" /\ hits # <<>>) => Reports(ret.m, hits[1])
            /\ ret.op = "MatchAll" =>
                   /\ Len(ret.ms) = Len(hits)
                   /\ \A j \in 1..Len(hits) : Reports(ret.ms[j], hits[j])

\* C18: a Match, MatchFirst, MatchAll or VerifyExamples call on a registered
\* database changes no fingerprint, no database's fingerprint list and no
\* entry of the registry's alias mapping.
C18_QueriesChangeNothing ==
    [][ret'.op \in {"Match", "MatchFirst", "MatchAll", "VerifyExamples"} =>
          /\ heap' = heap
          /\ Databases' = Databases]_vars

\* VerifyExamples went through a base64 example of a registered database,
\* decoding its text, and the example still holds the encoded text
C18_Witness ==
    /\ ret.op = "VerifyExamples"
    /\ HasKey(Databases, ret.key)
    /\ \E i \in 1..Len(ret.log) :
          LET ex == heap[Databases[ret.key]].Fingerprints[ret.log[i].fp]
                        .Examples[ret.log[i].ex]
          IN  /\ ret.log[i].did.matched
              /\ HasKey(ex.AttributeMap, EncodingKey)
              /\ ret.log[i].did.data # ex.Text

\* MatchAll on a database with a preference returned the default certainty
\* for one fingerprint and the declared one for the next
C17_Witness ==
    /\ ret.op = "MatchAll"
    /\ HasKey(Databases, ret.key)
    /\ heap[Databases[ret.key]].Preference = <<"0", ".", "9">>
    /\ Len(ret.ms) = 3
    /\ ret.ms[1].Values[FpCertaintyKey] = <<"0", ".", "8", "5">>
    /\ ret.ms[2].Values[FpCertaintyKey] = <<"0", ".", "5">>


----------------------------------------------------------------------------
(* Claims about Match, checked under SpecMatch *)

\* what FindStringSubmatch returns for the harness's fingerprint and input
Submatches == FindStringSubmatch(fp.PatternCompiled, data)

\* the number of capture groups of the harness's pattern
NumGroups == NumSubexp(fp.PatternCompiled)

MatchReturned == ret.op = "Match" /\ Matches(fp, data)

IsTmp(name) == HasPrefix(name, TmpPrefix)

\* a rule that copies a group the pattern has
GoodCapture(p) ==
    /\ p.Position # PosZero
    /\ Atoi(p.Position).ok
    /\ Atoi(p.Position).val \in 1..NumGroups

\* a rule whose position is not a number, is a number <= 0 other than the
\* literal "0", or is past the last group
BadPosition(p) ==
    /\ p.Position # PosZero
    /\ \/ ~Atoi(p.Position).ok
       \/ Atoi(p.Position).val <= 0
       \/ Atoi(p.Position).val > NumGroups

\* the text of group number Position
Group(p) == Submatches[Atoi(p.Position).val + 1]

\* the keys of the placeholders of v, left to right
PlaceholderSeq(v) ==
    LET Starts(i) == PlaceholderAt(v, i) > 0
        idx == SelectSeq([i \in 1..Len(v) |-> i], Starts)
    IN  [j \in 1..Len(idx) |-> SubSeq(v, idx[j] + 1, idx[j] + PlaceholderAt(v, idx[j]))]

Range(q) == {q[i] : i \in 1..Len(q)}

\* the keys the seeding puts into the mapping
SeedKeys == DOMAIN SeedValues(fp)

RuleNames == {fp.Params[i].Name : i \in 1..Len(fp.Params)}

\* C7: when the pattern does not match the input, Match returns matched=false
\* with an empty mapping and no error, whatever the certainty, the description
\* and the rules.
C7_NoMatchIsEmpty ==
    (ret.op = "Match" /\ ~Matches(fp, data)) =>
        /\ ~ret.m.Matched
        /\ ret.m.Values = EmptyMap
        /\ ret.m.Errors = <<>>

\* C7 witness: a fingerprint with a description, a certainty and rules is
\* matched against an input its pattern does not match
C7_Witness ==
    /\ ret.op = "Match"
    /\ ~Matches(fp, data)
    /\ ~fp.Description.nil
    /\ Len(fp.Params) >= 2

C2_Preconditions ==
    /\ MatchReturned
    /\ \A i, j \in 1..Len(fp.Params) : i # j => fp.Params[i].Name # fp.Params[j].Name
    /\ \A i \in 1..Len(fp.Params) :
           fp.Params[i].Position = PosZero \/ GoodCapture(fp.Params[i])

C2_Outcome ==
    /\ ret.m.Matched
    /\ ret.m.Errors = <<>>
    /\ \A i \in 1..Len(fp.Params) :
           LET p == fp.Params[i]
           IN  IF p.Position = PosZero
               THEN ~VarSubMatches(p.Value) =>
                        (HasKey(ret.m.Values, p.Name) /\ ret.m.Values[p.Name] = p.Value)
               ELSE HasKey(ret.m.Values, p.Name) /\ ret.m.Values[p.Name] = Group(p)

\* C2 as claimed: rules with distinct names and valid positions yield, on a
\* matching input, every literal value and every group under its name and an
\* empty error list.
C2_Original == C2_Preconditions => C2_Outcome

\* C2 as amended: the same, for fingerprints in which no rule name begins
\* with "_tmp." and every placeholder of a static value names a key of the
\* mapping (a rule of the fingerprint, fp.certainty or matched).
C2_DistinctValidRulesExtract ==
    ( /\ C2_Preconditions
      /\ \A i \in 1..Len(fp.Params) :
            /\ ~IsTmp(fp.Params[i].Name)
            /\ fp.Params[i].Position = PosZero =>
                   Range(PlaceholderSeq(fp.Params[i].Value)) \subseteq RuleNames \cup SeedKeys )
    => C2_Outcome

\* C2 witness: a literal rule and a capture rule, both extracted
C2_Witness ==
    /\ C2_Preconditions
    /\ Len(fp.Params) = 2
    /\ \A i \in 1..Len(fp.Params) : ~IsTmp(fp.Params[i].Name)
    /\ \E i \in 1..Len(fp.Params) : GoodCapture(fp.Params[i])
    /\ \E i \in 1..Len(fp.Params) :
           fp.Params[i].Position = PosZero /\ ~VarSubMatches(fp.Params[i].Value)
    /\ ret.m.Errors = <<>>
    /\ DOMAIN ret.m.Values = RuleNames \cup SeedKeys

IndexFormats ==
    { "param index %s is invalid: %s",
      "param index %s is invalid",
      "param index %s was not captured (%d elements)" }

\* C8: on a matched input every rule with a bad position adds exactly one
\* soft error and sets no attribute, every other rule is still processed
\* (positions 1..N copy their group), and the result is matched=true.
C8_BadPositionsAreSoft ==
    MatchReturned =>
        LET IsIndexError(e) == e.format \in IndexFormats
            indexErrors == SelectSeq(ret.m.Errors, IsIndexError)
            badRules    == SelectSeq(fp.Params, BadPosition)
            Sets(p)     == p.Position = PosZero \/ GoodCapture(p)
            setNames    == {p.Name : p \in {q \in Range(fp.Params) : Sets(q)}}
            staticNames == {p.Name : p \in {q \in Range(fp.Params) : q.Position = PosZero}}
        IN  /\ ret.m.Matched
            /\ [i \in 1..Len(indexErrors) |-> indexErrors[i].arg]
                   = [i \in 1..Len(badRules) |-> badRules[i].Position]
            /\ \A p \in Range(badRules) :
                   (p.Name \notin setNames \cup SeedKeys) => ~HasKey(ret.m.Values, p.Name)
            /\ \A n \in setNames : ~IsTmp(n) => HasKey(ret.m.Values, n)
            /\ \A i \in 1..Len(fp.Params) :
                   LET p == fp.Params[i]
                   IN  ( /\ GoodCapture(p)
                         /\ ~IsTmp(p.Name)
                         /\ p.Name \notin staticNames
                         /\ \A j \in (i + 1)..Len(fp.Params) :
                                fp.Params[j].Name = p.Name => ~GoodCapture(fp.Params[j]) )
                       => ret.m.Values[p.Name] = Group(p)

\* C8 witness: a rule with a bad position comes first, a capture rule after it
\* is still extracted
C8_Witness ==
    /\ MatchReturned
    /\ Len(fp.Params) >= 2
    /\ BadPosition(fp.Params[1])
    /\ GoodCapture(fp.Params[2])
    /\ fp.Params[1].Name # fp.Params[2].Name
    /\ Len(ret.m.Errors) = 1
    /\ HasKey(ret.m.Values, fp.Params[2].Name)
    /\ ~HasKey(ret.m.Values, fp.Params[1].Name)

SubstFormat == "param %s could not be substituted"

RECURSIVE UnresolvedTotal(_, _)
UnresolvedTotal(keys, values) ==
    IF keys = {} THEN 0
    ELSE LET k == CHOOSE x \in keys : TRUE
             Absent(rk) == ~HasKey(values, rk)
         IN  Len(SelectSeq(PlaceholderSeq(values[k]), Absent))
                 + UnresolvedTotal(keys \ {k}, values)

\* C9: in the substitution pass every placeholder whose key is absent from
\* the mapping adds one soft error and stays in the value as its literal text,
\* the placeholders of the same value that resolve are replaced, and the
\* result keeps matched=true.
C9_UnresolvedPlaceholdersAreSoft ==
    MatchReturned =>
        LET st == Extracted(fp, data)
            IsSubstError(e) == e.format = SubstFormat
            substErrors == SelectSeq(ret.m.Errors, IsSubstError)
            \* a key whose value the second pass leaves as the first pass set it
            Stable(rk) == rk \notin st.paramZeroKeys \/ ~VarSubMatches(st.Values[rk])
        IN  /\ ret.m.Matched
            /\ Len(substErrors) = UnresolvedTotal(st.paramZeroKeys, st.Values)
            /\ \A e \in Range(substErrors) : ~HasKey(st.Values, e.arg)
            /\ \A k \in st.paramZeroKeys : \A rk \in Range(PlaceholderSeq(st.Values[k])) :
                   ~IsTmp(k) =>
                       IF ~HasKey(st.Values, rk)
                       THEN Contains(ret.m.Values[k], Braced(rk))
                       ELSE Stable(rk) =>
                                Contains(ret.m.Values[k], TrimSpace(st.Values[rk]))

\* C9 witness: a static value with a placeholder that does not resolve and
\* one that does; the result has one error and a rewritten value
C9_Witness ==
    /\ MatchReturned
    /\ \E k \in Extracted(fp, data).paramZeroKeys :
           LET st == Extracted(fp, data)
               ks == Range(PlaceholderSeq(st.Values[k]))
           IN  /\ \E rk \in ks : ~HasKey(st.Values, rk)
               /\ \E rk \in ks : HasKey(st.Values, rk) /\ st.Values[rk] # <<>>
               /\ ret.m.Values[k] # st.Values[k]
    /\ Len(ret.m.Errors) = 1

\* C10: a value copied from a capture group is returned exactly as captured,
\* for every rule list, also when a position-0 rule declares the same name.
C10_CapturedValuesAreNeverRewritten ==
    MatchReturned =>
        \A i \in 1..Len(fp.Params) :
            LET p == fp.Params[i]
            IN  ( /\ GoodCapture(p)
                  /\ ~IsTmp(p.Name)
                  /\ \A j \in (i + 1)..Len(fp.Params) :
                         fp.Params[j].Name = p.Name =>
                             (fp.Params[j].Position # PosZero /\ ~GoodCapture(fp.Params[j])) )
                => (HasKey(ret.m.Values, p.Name) /\ ret.m.Values[p.Name] = Group(p))

\* C11: no attribute whose name begins with "_tmp." is in the mapping Match
\* returns, and a static value that is the placeholder of a "_tmp." attribute
\* which a rule has set receives that attribute's value without a soft error.
C11_TmpAttributesAreInternal ==
    /\ ret.op = "Match" => \A k \in DOMAIN ret.m.Values : ~IsTmp(k)
    /\ MatchReturned =>
           LET st == Extracted(fp, data)
           IN  \A k \in st.paramZeroKeys : \A rk \in Range(PlaceholderSeq(st.Values[k])) :
                   (IsTmp(rk) /\ HasKey(st.Values, rk)) =>
                       /\ \A e \in Range(ret.m.Errors) :
                              ~(e.format = SubstFormat /\ e.arg = rk)
                       /\ ( /\ ~IsTmp(k)
                            /\ st.Values[k] = Braced(rk)
                            /\ ~VarSubMatches(st.Values[rk]) )
                          => ret.m.Values[k] = TrimSpace(st.Values[rk])

\* C11 witness: a static value took the value of a temporary attribute that
\* the result does not hold
C11_Witness ==
    /\ MatchReturned
    /\ HasKey(Extracted(fp, data).Values, NameTmp)
    /\ \E i \in 1..Len(fp.Params) :
           /\ fp.Params[i].Position = PosZero
           /\ fp.Params[i].Value = Braced(NameTmp)
           /\ HasKey(ret.m.Values, fp.Params[i].Name)
           /\ ret.m.Values[fp.Params[i].Name] = Extracted(fp, data).Values[NameTmp]
    /\ ret.m.Errors = <<>>
    /\ ~HasKey(ret.m.Values, NameTmp)

\* C14: any two calls of Match with the same fingerprint and the same input
\* return the same matched flag, the same mapping and the same number of
\* soft errors.
C14_MatchIsAFunction ==
    ret.op = "Match" =>
        \A m \in MatchResults(fp, data) :
            /\ m.Matched = ret.m.Matched
            /\ m.Values = ret.m.Values
            /\ Len(m.Errors) = Len(ret.m.Errors)

\* pos, _ := strconv.Atoi(param.Position) of the corpus test
TestPos(p) == IF Atoi(p.Position).ok THEN Atoi(p.Position).val ELSE 0

\* the conditions the corpus test checks on the rules of a fingerprint: the
\* names are distinct, a rule has a value exactly when its position is 0, the
\* positive positions are the groups of the pattern, and every placeholder of
\* a value is the name of a rule
Conformant ==
    /\ \A i, j \in 1..Len(fp.Params) :
           i # j => fp.Params[i].Name # fp.Params[j].Name
    /\ \A i \in 1..Len(fp.Params) :
           LET p == fp.Params[i]
           IN  /\ TestPos(p) > 0 => TrimSpace(p.Value) = <<>>
               /\ TestPos(p) = 0 => TrimSpace(p.Value) # <<>>
               /\ Range(PlaceholderSeq(p.Value)) \subseteq RuleNames
    /\ {TestPos(fp.Params[i]) :
            i \in {j \in 1..Len(fp.Params) : TestPos(fp.Params[j]) > 0}}
           = 1..NumGroups

\* C23 as claimed: Match of a conformant fingerprint on an input its pattern
\* matches returns no soft error.
C23_Original == (MatchReturned /\ Conformant) => ret.m.Errors = <<>>

\* C23 as amended: the same, for conformant fingerprints in which every rule
\* position is the literal "0" or a positive decimal number.
C23_ConformantRulesMatchCleanly ==
    ( /\ MatchReturned
      /\ Conformant
      /\ \A i \in 1..Len(fp.Params) :
             \/ fp.Params[i].Position = PosZero
             \/ (Atoi(fp.Params[i].Position).ok /\ Atoi(fp.Params[i].Position).val > 0) )
    => ret.m.Errors = <<>>

\* C23 witness: the pattern has one group, one rule copies it and a static
\* rule refers to that rule by a placeholder
C23_Witness ==
    /\ MatchReturned
    /\ Conformant
    /\ NumGroups = 1
    /\ Len(fp.Params) = 2
    /\ \E i \in 1..2 : GoodCapture(fp.Params[i])
    /\ \E i \in 1..2 :
           fp.Params[i].Position = PosZero /\ VarSubMatches(fp.Params[i].Value)
    /\ ret.m.Errors = <<>>

----------------------------------------------------------------------------
(* Claims about VerifyExamples, checked under SpecVerify *)

\* the database the last call was made on
Verified == heap[Databases[ret.key]]

\* the examples of the database f, fingerprint by fingerprint, in declared order
RECURSIVE ExamplesFrom(_, _)
ExamplesFrom(fps, i) ==
    IF i > Len(fps) THEN <<>>
    ELSE [j \in 1..Len(fps[i].Examples) |-> [fp |-> i, ex |-> j]]
             \o ExamplesFrom(fps, i + 1)

MetadataKeys == {EncodingKey, FilenameKey}

\* the iteration e ran Match, the result is a match without soft errors and
\* holds every declared attribute, metadata apart, with the declared value
Conforms(e) ==
    LET want == Verified.Fingerprints[e.fp].Examples[e.ex].AttributeMap
    IN  /\ e.did.matched
        /\ e.did.m.Matched
        /\ e.did.m.Errors = <<>>
        /\ \A k \in DOMAIN want \ MetadataKeys :
               HasKey(e.did.m.Values, k) /\ e.did.m.Values[k] = want[k]

\* C12: VerifyExamples on a database returns success exactly when every
\* example of every fingerprint, in declared order, was matched and conforms;
\* otherwise it returns an error at the first example that does not and runs
\* nothing after it.
C12_VerifyExamplesIsExact ==
    ret.op = "VerifyExamples" =>
        LET all == ExamplesFrom(Verified.Fingerprints, 1)
            n   == Len(ret.log)
        IN  /\ n <= Len(all)
            /\ \A k \in 1..n :
                   /\ ret.log[k].fp = all[k].fp
                   /\ ret.log[k].ex = all[k].ex
                   /\ ret.log[k].did.matched =>
                          ret.log[k].did.m \in MatchResults(
                              Verified.Fingerprints[all[k].fp], ret.log[k].did.data)
            /\ \A k \in 1..(n - 1) : Conforms(ret.log[k])
            /\ IF ret.err = NilError
               THEN n = Len(all) /\ (n > 0 => Conforms(ret.log[n]))
               ELSE n > 0 /\ ~Conforms(ret.log[n])

\* C12 witness: the run passed one example and stopped at the next, before
\* the last
C12_Witness ==
    /\ ret.op = "VerifyExamples"
    /\ ret.err # NilError
    /\ Len(ret.log) = 2
    /\ ret.log[2].did.matched
    /\ ret.log[2].did.m.Matched
    /\ Len(ExamplesFrom(Verified.Fingerprints, 1)) = 3

\* C28: an example whose text reached Match fails exactly when the result is
\* not a match, or carries soft errors, or lacks a declared attribute that is
\* not metadata or holds it with another value; what else the result holds
\* (fp.certainty, matched, captures the example does not declare) never makes
\* it fail.
C28_VerificationIsOneDirectional ==
    ret.op = "VerifyExamples" =>
        \A k \in 1..Len(ret.log) :
            LET e      == ret.log[k]
                want   == Verified.Fingerprints[e.fp].Examples[e.ex].AttributeMap
                m      == e.did.m
                failed == ret.err # NilError /\ k = Len(ret.log)
            IN  e.did.matched =>
                    (failed <=>
                        \/ ~m.Matched
                        \/ m.Errors # <<>>
                        \/ \E a \in DOMAIN want \ MetadataKeys :
                               ~HasKey(m.Values, a) \/ m.Values[a] # want[a])

\* C28 witness: the run passed, and an example that declares an attribute
\* was matched with a result that also holds a capture it does not declare
C28_Witness ==
    /\ ret.op = "VerifyExamples"
    /\ ret.err = NilError
    /\ \E k \in 1..Len(ret.log) :
           LET e    == ret.log[k]
               want == Verified.Fingerprints[e.fp].Examples[e.ex].AttributeMap
           IN  /\ e.did.matched
               /\ DOMAIN want \ MetadataKeys # {}
               /\ HasKey(e.did.m.Values, NameB)
               /\ ~HasKey(want, NameB)
               /\ HasKey(e.did.m.Values, FpCertaintyKey)

\* C13: two consecutive VerifyExamples runs over the same database, with the
\* same example files, return the same pass or fail outcome.
C13_VerifyIsRepeatable ==
    [][ ( /\ ret.op = "VerifyExamples"
          /\ ret'.op = "VerifyExamples"
          /\ Databases[ret'.key] = Databases[ret.key]
          /\ heap' = heap )
        => ((ret'.err = NilError) <=> (ret.err = NilError)) ]_vars

\* the byte of a character of the table
CharByte(c) == (CHOOSE i \in 1..Len(AsciiPrintable) : AsciiPrintable[i] = c) + 31

\* the base64 form of a text, with padding: three bytes to four characters
RECURSIVE EncodeString(_)
EncodeString(d) ==
    IF d = <<>> THEN <<>>
    ELSE LET n    == IF Len(d) < 3 THEN Len(d) ELSE 3
             b(i) == IF i <= n THEN CharByte(d[i]) ELSE 0
             bits == b(1) * 65536 + b(2) * 256 + b(3)
             c(i) == B64Alphabet[((bits \div (64 ^ (4 - i))) % 64) + 1]
             q    == CASE n = 1 -> <<c(1), c(2), B64Pad, B64Pad>>
                       [] n = 2 -> <<c(1), c(2), c(3), B64Pad>>
                       [] OTHER -> <<c(1), c(2), c(3), c(4)>>
         IN  q \o EncodeString(SubSeq(d, n + 1, Len(d)))

\* C20: for an example with _encoding="base64" Match receives the text whose
\* base64 form is the example text without its white space, the text being
\* the contents of the file when the example has a _filename; a text that is
\* not base64 ends the run with an error and without a match attempt.
C20_Base64ExamplesAreDecoded ==
    ret.op = "VerifyExamples" =>
        \A k \in 1..Len(ret.log) :
            LET e     == ret.log[k]
                ex    == Verified.Fingerprints[e.fp].Examples[e.ex]
                named == HasKey(ex.AttributeMap, FilenameKey)
                there == named => HasKey(HarnessDir, ex.AttributeMap[FilenameKey])
                text  == IF named THEN HarnessDir[ex.AttributeMap[FilenameKey]]
                         ELSE ex.Text
                bare  == SelectSeq(text, LAMBDA c : c \notin {" ", "\t", "\n", "\r"})
                coded == /\ HasKey(ex.AttributeMap, EncodingKey)
                         /\ ex.AttributeMap[EncodingKey] = Base64Name
            IN  (coded /\ there) =>
                    IF e.did.matched
                    THEN EncodeString(e.did.data) = bare
                    ELSE /\ DecodeString(bare).err
                         /\ k = Len(ret.log)
                         /\ ret.err.format = "base64: %s: %s (%s)"

\* C20 witness: the text of a file, base64 with a newline, was decoded and
\* matched
C20_Witness ==
    /\ ret.op = "VerifyExamples"
    /\ \E k \in 1..Len(ret.log) :
           LET e  == ret.log[k]
               ex == Verified.Fingerprints[e.fp].Examples[e.ex]
           IN  /\ HasKey(ex.AttributeMap, FilenameKey)
               /\ HasKey(ex.AttributeMap, EncodingKey)
               /\ e.did.matched
               /\ e.did.m.Matched
               /\ e.did.data # HarnessDir[ex.AttributeMap[FilenameKey]]

----------------------------------------------------------------------------
(* Claims about Normalize, checked under SpecNormalize *)

\* the value the attribute list attrs gives the name n: that of the last
\* attribute of that name
Declared(attrs, n) ==
    LET Named(i) == attrs[i].Name = n
        last == CHOOSE i \in 1..Len(attrs) :
                    Named(i) /\ \A j \in (i + 1)..Len(attrs) : ~Named(j)
    IN  attrs[last].Value

\* C16: Normalize either returns success and leaves a compiled matcher and,
\* on every example, the lookup of its declared attributes, or returns an
\* error that says why and leaves no compiled matcher.
C16_NormalizeSucceedsOrExplains ==
    ret.op = "Normalize" =>
        IF ret.err = NilError
        THEN /\ ~fp.PatternCompiled.nil
             /\ fp.PatternCompiled.toks = fp.Pattern
             /\ \A i \in 1..Len(fp.Examples) :
                    LET ex == fp.Examples[i]
                    IN  /\ DOMAIN ex.AttributeMap = {a.Name : a \in Range(ex.Values)}
                        /\ \A n \in DOMAIN ex.AttributeMap :
                               ex.AttributeMap[n] = Declared(ex.Values, n)
        ELSE /\ fp.PatternCompiled.nil
             /\ ret.err.format # ""

\* C16 witness: a definition with examples was normalized with success
C16_Witness ==
    /\ ret.op = "Normalize"
    /\ ret.err = NilError
    /\ Len(fp.Examples) = 2
    /\ DOMAIN fp.Examples[1].AttributeMap = {NameA, NameB}
    /\ \E i \in 1..Len(fp.Pattern) : fp.Pattern[i].t = "nulx"

----------------------------------------------------------------------------
(* Claims about concurrent queries, checked under SpecConcurrent *)

\* the addresses goroutine t holds
Held(t) ==
    LET th == threads[t]
    IN  ({th.nomatch, th.dbnomatch, th.res}
            \cup {th.acc[k] : k \in 1..Len(th.acc)}
            \cup {th.out[k] : k \in 1..Len(th.out)}) \ {NoAddr}

\* what the caller of goroutine t reads through the pointers it was returned
Returned(t) == [k \in 1..Len(threads[t].out) |-> results[threads[t].out[k]].val]

\* C19: while goroutines query one loaded registry without locks, the
\* registry stays as loaded, and every call that has returned holds result
\* objects that only it wrote and that no other goroutine holds, whose
\* content is the result of the same call running alone.
C19_ConcurrentQueriesAreIndependent ==
    /\ heap = LoadedRegistry.heap
    /\ Databases = LoadedRegistry.Databases
    /\ \A t \in Threads :
          threads[t].pc = "done" =>
              LET th == threads[t]
              IN  /\ \A k \in 1..Len(th.out) : results[th.out[k]].writers = {t}
                  /\ \A u \in Threads \ {t} : Held(u) \cap Held(t) = {}
                  /\ \A j, k \in 1..Len(th.out) : th.out[j] = th.out[k] => j = k
                  /\ IF th.op = "MatchFirst"
                     THEN /\ Len(th.out) = 1
                          /\ SetMatchFirst(Databases, heap, th.key, th.data)
                                 = {Returned(t)[1]}
                     ELSE SetMatchAll(Databases, heap, th.key, th.data)
                              = {Returned(t)}

\* two goroutines queried the same database while each other's call was
\* running, one with MatchAll and three matches, one with MatchFirst
C19_Witness ==
    /\ \A t \in Threads : threads[t].pc = "done" /\ threads[t].overlapped
    /\ \E t, u \in Threads :
          /\ threads[t].op = "MatchAll"
          /\ Len(threads[t].out) = 3
          /\ threads[u].op = "MatchFirst"
          /\ threads[u].fdb = threads[t].fdb
          /\ results[threads[u].out[1]].val.Matched

\* whether a word of ws stands alone between separators in the flag string
HasFlag(flags, ws) ==
    \E i \in 1..Len(flags) :
        /\ flags[i] \in ws
        /\ i = 1 \/ flags[i - 1] \in {"|", ","}
        /\ i = Len(flags) \/ flags[i + 1] \in {"|", ","}

\* C22: Normalize fails exactly when the pattern does not parse, whatever the
\* flag string; on success case folding is on exactly when REG_ICASE or
\* IGNORECASE is a token of the flag string, and match-across-newlines
\* exactly when REG_DOT_NEWLINE, REG_MULTILINE or REG_LINE_ANY_CRLF is a
\* token or the pattern begins with (?m).
C22_OptionsComeFromKnownFlags ==
    ret.op = "Normalize" =>
        /\ ret.err = NilError <=>
               \A i \in 1..Len(fp.Pattern) : fp.Pattern[i].t # "bad"
        /\ ret.err = NilError =>
               /\ fp.PatternCompiled.fold
                      <=> HasFlag(fp.Flags, {"REG_ICASE", "IGNORECASE"})
               /\ fp.PatternCompiled.nl
                      <=> \/ HasFlag(fp.Flags, {"REG_DOT_NEWLINE", "REG_MULTILINE",
                                                "REG_LINE_ANY_CRLF"})
                          \/ (fp.Pattern # <<>> /\ fp.Pattern[1].t = "mflag")

\* Normalize accepted a flag string with an unknown token and a known one
C22_Witness ==
    /\ ret.op = "Normalize"
    /\ ret.err = NilError
    /\ fp.Flags = <<"REG_ICASE", "X", "|", "REG_LINE_ANY_CRLF">>
    /\ fp.PatternCompiled.nl
    /\ ~fp.PatternCompiled.fold

----------------------------------------------------------------------------
(* Claims about static values, checked under SpecStatic *)

\* the ways to read the value v as text, one placeholder, text
Splits(v) ==
    {[pre |-> SubSeq(v, 1, i - 1), rk |-> SubSeq(v, i + 1, j - 1),
      post |-> SubSeq(v, j + 1, Len(v))] :
        <<i, j>> \in {ij \in (1..Len(v)) \X (1..Len(v)) :
                        /\ ij[1] + 1 < ij[2]
                        /\ v[ij[1]] = "{"
                        /\ v[ij[2]] = "}"
                        /\ \A n \in (ij[1] + 1)..(ij[2] - 1) : v[n] \in IdentChars}}

\* the keys whose value after the first pass is the static value of a rule
StaticKeys == Extracted(fp, data).paramZeroKeys

\* the mapping after the first pass
FirstValues == Extracted(fp, data).Values

Trimmed(v) == v = <<>> \/ (v[1] \notin SpaceChars /\ v[Len(v)] \notin SpaceChars)

\* C25 as claimed: every static value Match returns has no white space at
\* either end, whether or not it contained a placeholder.
C25_Original ==
    (ret.op = "Match" /\ ret.m.Matched) =>
        \A k \in StaticKeys : Trimmed(ret.m.Values[k])

\* C25 as amended: a static value that contained a placeholder is returned
\* without white space at either end; a static value without a placeholder
\* is returned as declared.
C25_SubstitutedValuesAreTrimmed ==
    (ret.op = "Match" /\ ret.m.Matched) =>
        \A k \in StaticKeys :
            IF VarSubMatches(FirstValues[k])
            THEN Trimmed(ret.m.Values[k])
            ELSE ret.m.Values[k] = FirstValues[k]

\* C25 witness: a value with a placeholder between white space, whose key
\* has a value that ends in white space, is returned trimmed
C25_Witness ==
    /\ ret.op = "Match"
    /\ ret.m.Matched
    /\ NameA \in StaticKeys
    /\ FirstValues[NameA] = <<" ">> \o Braced(NameB) \o <<"\t">>
    /\ HasKey(FirstValues, NameB)
    /\ FirstValues[NameB] = <<"w", " ">>
    /\ ret.m.Values[NameA] = <<"w">>

----------------------------------------------------------------------------
(* Claims about the trace, checked under SpecTrace *)

\* the match line of fingerprint f for the input s
IsMatchLine(line, f, s) ==
    /\ line.format = "FP-MATCH %#v to %#v (%s)"
    /\ line.args = <<s, f.Pattern, DescText(f)>>

\* the no-match line for the input s
IsFailLine(line, s) == line.format = "FP-FAIL %#v" /\ line.args = <<s>>

\* C24: a database without a logger writes nothing; with a logger, MatchFirst
\* writes one line, the match line of the first matching fingerprint or the
\* no-match line, and MatchAll writes the match lines of the matching
\* fingerprints in declared order, or the no-match line alone when none
\* matches; the results are those of the call without a logger.
C24_TraceFollowsTheScan ==
    ret.op \in {"MatchFirst", "MatchAll"} =>
        LET fdb  == heap[Databases[ret.key]]
            fps  == fdb.Fingerprints
            hits == Hits(fps, ret.data)
        IN  /\ IF ret.op = "MatchFirst"
               THEN ret.m \in FDBMatchFirst(fdb, ret.data)
               ELSE ret.ms \in FDBMatchAll(fdb, ret.data)
            /\ IF fdb.Logger = NilLogger THEN ret.log = <<>>
               ELSE IF hits = <<>>
               THEN Len(ret.log) = 1 /\ IsFailLine(ret.log[1], ret.data)
               ELSE IF ret.op = "MatchFirst"
               THEN /\ Len(ret.log) = 1
                    /\ IsMatchLine(ret.log[1], fps[hits[1]], ret.data)
               ELSE /\ Len(ret.log) = Len(hits)
                    /\ \A j \in 1..Len(hits) :
                           IsMatchLine(ret.log[j], fps[hits[j]], ret.data)

\* MatchAll on a database with a logger wrote three match lines
C24_Witness ==
    /\ ret.op = "MatchAll"
    /\ heap[Databases[ret.key]].Logger = Sink
    /\ Len(ret.log) = 3
    /\ Len(ret.ms) = 3

----------------------------------------------------------------------------
(* The identifier drift checker (cmd/recog_verify): main, one extractParams
   goroutine for each file, the three channel readers, and one handleChanges
   goroutine for each kind of identifier *)

MaxFiles == 2

ErrChCap == 1
MsgChCap == 1
ParamChCap == 1000

VendorName == <<"o", "s", ".", "v", "e", "n", "d", "o", "r">>

\* The kinds of identifier of the reference files (two of the ten)
Identifiers == {"fields", "vendor"}

\* The param elements a fingerprint file can hold
DriftParams ==
    { Param(PosZero, VendorName, <<"v">>), Param(<<"1">>, VendorName, <<>>) }

\* The files named on the command line: one that does not open, or the
\* param elements of one that does
DriftFiles ==
    {[openErr |-> TRUE, params |-> <<>>]}
        \cup {[openErr |-> FALSE, params |-> ps] : ps \in SeqsUpTo(DriftParams, 1)}

\* The identifiers the reference files hold for each kind
StdIdentifiers ==
    {[fields |-> f, vendor |-> v] : f \in {{}, {VendorName}}, v \in {{}, {<<"v">>}}}

NoErr == [kind |-> "nil", file |-> 0, id |-> ""]
OpenErr(i) == [kind |-> "open", file |-> i, id |-> ""]
WriteErr(id) == [kind |-> "write", file |-> 0, id |-> id]

NoMsg == [id |-> "", what |-> "", key |-> <<>>]
Msg(id, what, key) == [id |-> id, what |-> what, key |-> key]

\* make(chan T, cap)
Chan(cap) == [buf |-> <<>>, closed |-> FALSE, cap |-> cap]

CanSend(ch) == Len(ch.buf) < ch.cap

CanRecv(ch) == ch.buf # <<>>

\* set.keys(): the keys of a set as a list (a set of the model holds at most
\* one key, which is its own sorted list)
RECURSIVE Keys(_)
Keys(set) ==
    IF set = {} THEN <<>>
    ELSE LET k == CHOOSE x \in set : TRUE IN <<k>> \o Keys(set \ {k})

\* the messages handleChanges sends for one kind: the removed values, then
\* the new ones
Changes(id, current, original) ==
    LET removed == SelectSeq(Keys(original), LAMBDA k : k \notin current)
        new     == SelectSeq(Keys(current), LAMBDA k : k \notin original)
    IN  [j \in 1..Len(removed) |-> Msg(id, "REMOVED", removed[j])]
            \o [j \in 1..Len(new) |-> Msg(id, "NEW", new[j])]

\* the body of the loop of waitForParams on one param
AddParam(cur, param) ==
    LET c1 == [cur EXCEPT !.fields = @ \cup {param.Name}]
    IN  IF \/ param.Position # PosZero
           \/ TrimSpace(param.Value) = <<>>
           \/ Contains(param.Value, <<"{">>)
        THEN c1
        ELSE IF param.Name = VendorName
        THEN [c1 EXCEPT !.vendor = @ \cup {param.Value}]
        ELSE c1

\* wg.Done(): a counter that goes below zero panics
Done(d) ==
    IF d.wg = 0 THEN [d EXCEPT !.status = "panic"] ELSE [d EXCEPT !.wg = @ - 1]

\* main has loaded the reference files and made the channels and their readers
InitDrift ==
    /\ heap = <<>>
    /\ Databases = EmptyMap
    /\ loadErr = ""
    /\ fp = NoFingerprint
    /\ data = <<>>
    /\ ret = NoCall
    /\ threads = <<>>
    /\ results = EmptyMap
    /\ \E files \in SeqsUpTo(DriftFiles, MaxFiles) \ {<<>>},
          std \in StdIdentifiers, writeFails \in BOOLEAN, zero \in BOOLEAN :
          drift = [status |-> "running", exitCode |-> 0,
                   files |-> files, std |-> std,
                   writeFails |-> writeFails, zero |-> zero,
                   main |-> "go", next |-> 1,
                   extract |-> [i \in 1..Len(files) |-> "idle"],
                   todo |-> [i \in 1..Len(files) |-> files[i].params],
                   errs |-> "recv", errHeld |-> NoErr,
                   msgs |-> "recv", msgHeld |-> NoMsg,
                   params |-> "recv",
                   handle |-> [id \in Identifiers |-> "idle"],
                   pending |-> [id \in Identifiers |-> <<>>],
                   changes |-> [id \in Identifiers |-> FALSE],
                   wg |-> 0, pwg |-> 1,
                   errCh |-> Chan(ErrChCap), msgCh |-> Chan(MsgChCap),
                   paramCh |-> Chan(ParamChCap),
                   asyncErr |-> NoErr,
                   cur |-> [fields |-> {}, vendor |-> {}],
                   sent |-> {}, logged |-> {}, errLogged |-> {},
                   foundNew |-> FALSE, foundRemoved |-> FALSE]

Running == drift.status = "running"

\* the process moves on as d
Goes(d) ==
    /\ Running
    /\ drift' = d
    /\ UNCHANGED <<heap, Databases, loadErr, fp, data, ret, threads, results>>

\* go extractParams(file, &wg, errCh, paramCh)
MainGoExtract ==
    /\ drift.main = "go"
    /\ Goes([drift EXCEPT !.extract[drift.next] = "open", !.main = "add"])

\* wg.Add(1), after the go statement
MainAddExtract ==
    /\ drift.main = "add"
    /\ Goes([drift EXCEPT !.wg = @ + 1, !.next = @ + 1,
                          !.main = IF drift.next = Len(drift.files)
                                   THEN "wait" ELSE "go"])

\* wg.Wait()
MainWaitExtract ==
    /\ drift.main = "wait"
    /\ drift.wg = 0
    /\ Goes([drift EXCEPT !.main = "close"])

\* close(paramCh)
MainCloseParams ==
    /\ drift.main = "close"
    /\ Goes([drift EXCEPT !.paramCh.closed = TRUE, !.main = "pwait"])

\* pwg.Wait()
MainWaitParams ==
    /\ drift.main = "pwait"
    /\ drift.pwg = 0
    /\ Goes([drift EXCEPT !.main = "load"])

\* if err := asyncErr.Load(); err != nil { log.Fatalln(err) }
MainLoad ==
    /\ drift.main = "load"
    /\ Goes(IF drift.asyncErr # NoErr
            THEN [drift EXCEPT !.status = "fatal", !.exitCode = 1]
            ELSE [drift EXCEPT !.main = "goHandle"])

\* go handleChanges(...), for the next kind the range over the map yields
MainGoHandle ==
    /\ drift.main = "goHandle"
    /\ \E id \in Identifiers :
        /\ drift.handle[id] = "idle"
        /\ Goes([drift EXCEPT !.handle[id] = "start", !.main = "addHandle"])

\* wg.Add(1), after the go statement
MainAddHandle ==
    /\ drift.main = "addHandle"
    /\ Goes([drift EXCEPT !.wg = @ + 1,
                          !.main = IF \E id \in Identifiers : drift.handle[id] = "idle"
                                   THEN "goHandle" ELSE "waitHandle"])

\* wg.Wait()
MainWaitHandle ==
    /\ drift.main = "waitHandle"
    /\ drift.wg = 0
    /\ Goes([drift EXCEPT !.main = "closeErrs"])

\* close(errCh)
MainCloseErrs ==
    /\ drift.main = "closeErrs"
    /\ Goes([drift EXCEPT !.errCh.closed = TRUE, !.main = "closeMsgs"])

\* close(msgCh)
MainCloseMsgs ==
    /\ drift.main = "closeMsgs"
    /\ Goes([drift EXCEPT !.msgCh.closed = TRUE, !.main = "exit"])

\* os.Exit(exitCode)
MainExit ==
    /\ drift.main = "exit"
    /\ Goes([drift EXCEPT
                !.status = "exit",
                !.exitCode = IF ~drift.zero /\ (drift.foundNew \/ drift.foundRemoved)
                             THEN 1 ELSE 0])

\* f, err := os.Open(file)
ExtractOpen(i) ==
    /\ drift.extract[i] = "open"
    /\ Goes([drift EXCEPT !.extract[i] = IF drift.files[i].openErr
                                         THEN "sendErr" ELSE "decode"])

\* errCh <- err
ExtractSendErr(i) ==
    /\ drift.extract[i] = "sendErr"
    /\ CanSend(drift.errCh)
    /\ Goes([drift EXCEPT !.errCh.buf = Append(@, OpenErr(i)),
                          !.extract[i] = "done"])

\* the decoder loop: paramCh <- &param for the next param element, or the
\* end of the file
ExtractDecode(i) ==
    /\ drift.extract[i] = "decode"
    /\ IF drift.todo[i] = <<>>
       THEN Goes([drift EXCEPT !.extract[i] = "done"])
       ELSE /\ CanSend(drift.paramCh)
            /\ Goes([drift EXCEPT !.paramCh.buf = Append(@, Head(drift.todo[i])),
                                  !.todo[i] = Tail(@)])

\* the deferred wg.Done() of extractParams
ExtractDone(i) ==
    /\ drift.extract[i] = "done"
    /\ Goes(Done([drift EXCEPT !.extract[i] = "end"]))

\* for err := range errCh
ErrsRecv ==
    /\ drift.errs = "recv"
    /\ IF CanRecv(drift.errCh)
       THEN Goes([drift EXCEPT !.errHeld = Head(drift.errCh.buf),
                               !.errCh.buf = Tail(@), !.errs = "store"])
       ELSE /\ drift.errCh.closed
            /\ Goes([drift EXCEPT !.errs = "end"])

\* asyncErr.CompareAndSwap(nil, err)
ErrsStore ==
    /\ drift.errs = "store"
    /\ Goes([drift EXCEPT !.asyncErr = IF @ = NoErr THEN drift.errHeld ELSE @,
                          !.errs = "log"])

\* log.Printf("error: %s", err)
ErrsLog ==
    /\ drift.errs = "log"
    /\ Goes([drift EXCEPT !.errLogged = @ \cup {drift.errHeld}, !.errs = "recv"])

\* for param := range paramCh, with the body of the loop
ParamsRecv ==
    /\ drift.params = "recv"
    /\ IF CanRecv(drift.paramCh)
       THEN Goes([drift EXCEPT !.cur = AddParam(@, Head(drift.paramCh.buf)),
                               !.paramCh.buf = Tail(@)])
       ELSE /\ drift.paramCh.closed
            /\ Goes([drift EXCEPT !.params = "done"])

\* wg.Done() of the reader of paramCh
ParamsDone ==
    /\ drift.params = "done"
    /\ Goes([drift EXCEPT !.pwg = @ - 1, !.params = "end"])

\* for msg := range msgCh
MsgsRecv ==
    /\ drift.msgs = "recv"
    /\ IF CanRecv(drift.msgCh)
       THEN Goes([drift EXCEPT !.msgHeld = Head(drift.msgCh.buf),
                               !.msgCh.buf = Tail(@), !.msgs = "log"])
       ELSE /\ drift.msgCh.closed
            /\ Goes([drift EXCEPT !.msgs = "end"])

\* log.Println(msg)
MsgsLog ==
    /\ drift.msgs = "log"
    /\ Goes([drift EXCEPT !.logged = @ \cup {drift.msgHeld}, !.msgs = "recv"])

\* handleChanges starts: the keys of the two sets
HandleStart(id) ==
    /\ drift.handle[id] = "start"
    /\ Goes([drift EXCEPT !.pending[id] = Changes(id, drift.cur[id], drift.std[id]),
                          !.handle[id] = "send"])

\* msgCh <- fmt.Sprintf(...), then foundRemoved or foundNew and changes
HandleSend(id) ==
    /\ drift.handle[id] = "send"
    /\ IF drift.pending[id] = <<>>
       THEN Goes([drift EXCEPT !.handle[id] = "write"])
       ELSE LET msg == Head(drift.pending[id])
            IN  /\ CanSend(drift.msgCh)
                /\ Goes([drift EXCEPT
                            !.msgCh.buf = Append(@, msg),
                            !.sent = @ \cup {msg},
                            !.pending[id] = Tail(@),
                            !.foundRemoved = @ \/ msg.what = "REMOVED",
                            !.foundNew = @ \/ msg.what = "NEW",
                            !.changes[id] = TRUE])

\* if *write && changes { writeIdentifiers(...) }
HandleWrite(id) ==
    /\ drift.handle[id] = "write"
    /\ Goes([drift EXCEPT !.handle[id] = IF drift.writeFails /\ drift.changes[id]
                                        THEN "sendErr" ELSE "done"])

\* errCh <- err
HandleSendErr(id) ==
    /\ drift.handle[id] = "sendErr"
    /\ CanSend(drift.errCh)
    /\ Goes([drift EXCEPT !.errCh.buf = Append(@, WriteErr(id)),
                          !.handle[id] = "done"])

\* the deferred wg.Done() of handleChanges
HandleDone(id) ==
    /\ drift.handle[id] = "done"
    /\ Goes(Done([drift EXCEPT !.handle[id] = "end"]))

NextDrift ==
    \/ MainGoExtract
    \/ MainAddExtract
    \/ MainWaitExtract
    \/ MainCloseParams
    \/ MainWaitParams
    \/ MainLoad
    \/ MainGoHandle
    \/ MainAddHandle
    \/ MainWaitHandle
    \/ MainCloseErrs
    \/ MainCloseMsgs
    \/ MainExit
    \/ \E i \in 1..Len(drift.files) :
          ExtractOpen(i) \/ ExtractSendErr(i) \/ ExtractDecode(i) \/ ExtractDone(i)
    \/ ErrsRecv
    \/ ErrsStore
    \/ ErrsLog
    \/ ParamsRecv
    \/ ParamsDone
    \/ MsgsRecv
    \/ MsgsLog
    \/ \E id \in Identifiers :
          HandleStart(id) \/ HandleSend(id) \/ HandleWrite(id)
              \/ HandleSendErr(id) \/ HandleDone(id)

SpecDrift == InitDrift /\ [][NextDrift]_vars

----------------------------------------------------------------------------
(* Claims about the identifier drift checker, checked under SpecDrift *)

\* some file of the command line does not open
SomeOpenFails == \E i \in 1..Len(drift.files) : drift.files[i].openErr

\* main is past its check of asyncErr
PastLoad ==
    drift.main \in {"goHandle", "addHandle", "waitHandle", "closeErrs",
                    "closeMsgs", "exit"}

\* when a file does not open, main never gets past its check of asyncErr and
\* no handleChanges starts
OpenErrorStopsMain ==
    SomeOpenFails =>
        /\ ~PastLoad
        /\ \A id \in Identifiers : drift.handle[id] = "idle"

\* when the process has exited, every message handleChanges sent is logged
MessagesLoggedAtExit ==
    drift.status = "exit" => drift.sent \subseteq drift.logged

\* C29: when an extractParams goroutine fails to open its file, main sees the
\* error at its check and stops before any handleChanges starts, and every
\* message handleChanges sent is logged before the process exits.
C29_ErrorsAndMessagesAreObserved ==
    OpenErrorStopsMain /\ MessagesLoggedAtExit

====
